---- MODULE Spec2Model ----
(***************************************************************************)
(* Terminal Adventure Quest (main.py) and its automatic balancer           *)
(* (game_tuner.py): the adjustment file and its history, the player's      *)
(* numeric operations, and the per-day session loop.                       *)
(***************************************************************************)
EXTENDS Integers, Sequences, FiniteSets, TLC

(***************************************************************************)
(* Python floats.  The game scales damage, supplies and daily consumption  *)
(* with float products and sums and then truncates with int(), so the      *)
(* rounding of IEEE-754 binary64 decides the integers the player sees.     *)
(* A non-negative double is held exactly, as the natural number            *)
(* value * 2^FracBits, written little-endian in limbs of LimbBits bits     *)
(* with no high zero limb.  Every double that occurs here lies in          *)
(* [2^-19, 2^40) or is 0, so it is a whole number of units.                *)
(***************************************************************************)
LimbBits == 6 + 6
LimbBase == 2^LimbBits
FracBits == 6 * LimbBits
MantBits == 52 + 1

MaxOf(S) == CHOOSE x \in S : \A y \in S : y <= x

Limb(n, i) == IF i >= 1 /\ i <= Len(n) THEN n[i] ELSE 0

\* the positions of the non-zero limbs of n
NonZero(n) == {i \in 1..Len(n) : n[i] # 0}

\* the element of a one-element set: the operands of an operation are
\* values before the operation starts, as Python's are
TheValue(S) == CHOOSE v \in S : TRUE

\* m down to the last of the positions in nz
TrimTo(m, nz) == IF nz = {} THEN <<>> ELSE SubSeq(m, 1, MaxOf(nz))

Trim(n) == TheValue({TrimTo(m, NonZero(m)) : m \in {n}})

RECURSIVE IntToBig(_)
IntToBig(k) == IF k = 0 THEN <<>> ELSE <<k % LimbBase>> \o IntToBig(k \div LimbBase)

RECURSIVE BigToInt(_)
BigToInt(n) == IF n = <<>> THEN 0 ELSE n[1] + LimbBase * BigToInt(Tail(n))

RECURSIVE BigAddFrom(_, _, _, _)
BigAddFrom(a, b, i, carry) ==
    IF i > Len(a) /\ i > Len(b)
    THEN IF carry = 0 THEN <<>> ELSE <<carry>>
    ELSE <<(Limb(a, i) + Limb(b, i) + carry) % LimbBase>>
            \o BigAddFrom(a, b, i + 1, (Limb(a, i) + Limb(b, i) + carry) \div LimbBase)

BigAdd(a, b) == Trim(BigAddFrom(a, b, 1, 0))

RECURSIVE BigSubFrom(_, _, _, _)
BigSubFrom(a, b, i, borrow) ==
    IF i > Len(a)
    THEN <<>>
    ELSE <<(a[i] - Limb(b, i) - borrow + LimbBase) % LimbBase>>
            \o BigSubFrom(a, b, i + 1, IF a[i] - Limb(b, i) - borrow < 0 THEN 1 ELSE 0)

\* a - b for a >= b
BigSub(a, b) == Trim(BigSubFrom(a, b, 1, 0))

RECURSIVE ColSum(_, _, _, _)
ColSum(a, b, k, i) ==
    IF i > Len(a) THEN 0 ELSE a[i] * Limb(b, k + 1 - i) + ColSum(a, b, k, i + 1)

RECURSIVE BigMulFrom(_, _, _, _)
BigMulFrom(a, b, k, carry) ==
    IF k > Len(a) + Len(b)
    THEN <<>>
    ELSE <<(ColSum(a, b, k, 1) + carry) % LimbBase>>
            \o BigMulFrom(a, b, k + 1, (ColSum(a, b, k, 1) + carry) \div LimbBase)

BigMul(a, b) == Trim(BigMulFrom(a, b, 1, 0))

RECURSIVE BigLessFrom(_, _, _)
BigLessFrom(a, b, i) ==
    IF i = 0 THEN FALSE
    ELSE IF a[i] # b[i] THEN a[i] < b[i]
    ELSE BigLessFrom(a, b, i - 1)

BigLess(a, b) ==
    IF Len(a) # Len(b) THEN Len(a) < Len(b) ELSE BigLessFrom(a, b, Len(a))

RECURSIVE BitLenInt(_)
BitLenInt(x) == IF x = 0 THEN 0 ELSE 1 + BitLenInt(x \div 2)

BigBitLen(n) ==
    IF n = <<>> THEN 0 ELSE LimbBits * (Len(n) - 1) + BitLenInt(n[Len(n)])

\* m shifted right by b < LimbBits bits
BigShrBits(m, b) ==
    Trim([i \in 1..Len(m) |->
             (m[i] \div 2^b) + (Limb(m, i + 1) % 2^b) * 2^(LimbBits - b)])

BigShr(n, s) ==
    BigShrBits(IF s \div LimbBits >= Len(n)
               THEN <<>>
               ELSE SubSeq(n, (s \div LimbBits) + 1, Len(n)),
               s % LimbBits)

\* n shifted left by b < LimbBits bits, untrimmed
BigShlBits(n, b) ==
    [i \in 1..(Len(n) + 1) |->
        ((Limb(n, i) * 2^b) % LimbBase) + ((Limb(n, i - 1) * 2^b) \div LimbBase)]

BigShl(n, s) ==
    Trim([i \in 1..(s \div LimbBits) |-> 0] \o BigShlBits(n, s % LimbBits))

BigBit(n, i) == (Limb(n, (i \div LimbBits) + 1) \div 2^(i % LimbBits)) % 2

\* some bit below position s is set
BigLowNonZero(n, s) == BigShl(BigShr(n, s), s) # n

RECURSIVE BigDivRem(_, _, _)
\* the remainder of the limbs i.. of n (its high part) divided by the small d
BigDivRem(n, d, i) ==
    IF i > Len(n) THEN 0 ELSE (BigDivRem(n, d, i + 1) * LimbBase + n[i]) % d

BigDivSmall(n, d) ==
    Trim([i \in 1..Len(n) |-> (BigDivRem(n, d, i + 1) * LimbBase + n[i]) \div d])

\* round to MantBits significant bits, ties to even; sticky: a non-zero tail
\* lies below the last unit of n
\* the s bits dropped from n round its quotient q up: the first of them is
\* set, and so is a later one or the last bit of q
BigRoundUp(n, sticky, s, q) ==
    BigBit(n, s - 1) = 1 /\ (sticky \/ BigLowNonZero(n, s - 1) \/ BigBit(q, 0) = 1)

BigRoundTo(n, sticky, s, q) ==
    TheValue({BigShl(rounded, s) :
                 rounded \in {IF BigRoundUp(n, sticky, s, q) THEN BigAdd(q, <<1>>) ELSE q}})

BigRoundLen(n, sticky, len) ==
    IF len <= MantBits
    THEN n
    ELSE TheValue({BigRoundTo(n, sticky, len - MantBits, q) :
                      q \in {BigShr(n, len - MantBits)}})

BigRound53(n, sticky) == BigRoundLen(n, sticky, BigBitLen(n))

\* float(k) for an int k >= 0
DblFromInt(k) == BigShl(IntToBig(k), FracBits)

\* a decimal literal num/den (0.85 is DblLit(85, 100)): the nearest double
DblQuotient(n, den) ==
    TheValue({BigShr(BigRound53(q, BigDivRem(m, den, 1) # 0), FracBits) :
                 q \in {BigDivSmall(m, den) : m \in {n}}, m \in {n}})

DblLit(num, den) == DblQuotient(BigShl(IntToBig(num), 2 * FracBits), den)

DblAdd(x, y) ==
    TheValue({BigRound53(sum, FALSE) : sum \in {BigAdd(a, b) : a \in {x}, b \in {y}}})

\* x - y for x >= y
DblSub(x, y) ==
    TheValue({BigRound53(difference, FALSE) :
                 difference \in {BigSub(a, b) : a \in {x}, b \in {y}}})

DblMul(x, y) ==
    TheValue({BigShr(BigRound53(product, FALSE), FracBits) :
                 product \in {BigMul(a, b) : a \in {x}, b \in {y}}})

DblLess(x, y) == BigLess(x, y)

DblLeq(x, y) == ~BigLess(y, x)

\* int(x): truncation
DblTrunc(x) == BigToInt(BigShr(x, FracBits))

\* round(x): to the nearest integer, ties to even
DblNearest(k, frac, half) ==
    IF BigLess(half, frac) THEN k + 1
    ELSE IF frac = half THEN k + (k % 2)
    ELSE k

DblRoundFrom(x, k) ==
    DblNearest(k, BigSub(x, DblFromInt(k)), BigShl(<<1>>, FracBits - 1))

DblRoundInt(x) == DblRoundFrom(x, DblTrunc(x))

(***************************************************************************)
(* State.                                                                  *)
(*   tuning_file    game_tuning.json: NoFile, Unparseable, or the dict     *)
(*                  json.load yields                                       *)
(*   saves          how many times save_tuning_config has run (bounds the  *)
(*                  exploration)                                           *)
(*   TUNING_CONFIG, TUNING_LOADED   the game process's globals             *)
(*   player         the Player object                                      *)
(*   call           the Player method called last, how often it has been   *)
(*                  called, its argument, and the player before the call   *)
(*                  and before the first call                              *)
(*   session        _run_game_loop: the prompt it waits at (pc), its       *)
(*                  day_count and max_days, the dice games played in the   *)
(*                  event under way, the looks at the status in the        *)
(*                  daily_action under way, and log: the records the       *)
(*                  session's GameLogger has appended, by type, with       *)
(*                  logging enabled (achievement and error records are     *)
(*                  left out)                                              *)
(***************************************************************************)
VARIABLES tuning_file, saves, TUNING_CONFIG, TUNING_LOADED, player, call, session

vars == <<tuning_file, saves, TUNING_CONFIG, TUNING_LOADED, player, call, session>>

tunerVars == <<tuning_file, saves>>

playVars == <<player, call, session>>

(***************************************************************************)
(* Python values: a dict is a function on its keys, {} the empty function, *)
(* a float that is a quotient of two ints the pair <<num, den>>.           *)
(***************************************************************************)
\* os.path.exists fails for game_tuning.json
NoFile == [absent |-> TRUE]

FileExists(file) == "absent" \notin DOMAIN file

\* a game_tuning.json that json.load cannot parse
Unparseable == [unparseable |-> TRUE]

Parseable(file) == "unparseable" \notin DOMAIN file

None == "None"

EmptyDict == <<>>

\* d.get(k, default)
DictGet(d, k, default) == IF k \in DOMAIN d THEN d[k] ELSE default

\* the truth value of a dict or a list: whether it is non-empty
Truthy(d) == DOMAIN d # {}

RatLess(a, b) == a[1] * b[2] < b[1] * a[2]

RatOfInt(k) == <<k, 1>>

\* s[:k]
FirstOf(s, k) == IF Len(s) <= k THEN s ELSE SubSeq(s, 1, k)

\* s[-k:]
LastOf(s, k) == IF Len(s) <= k THEN s ELSE SubSeq(s, Len(s) - k + 1, Len(s))

RECURSIVE SumOver(_, _)
\* the sum of the counts f[x] over DOMAIN f weighted by w[x]
SumOver(f, w) ==
    IF DOMAIN f = {} THEN 0
    ELSE LET x == CHOOSE y \in DOMAIN f : TRUE
         IN  f[x] * w[x] + SumOver([y \in DOMAIN f \ {x} |-> f[y]], w)

(***************************************************************************)
(* The log directory.  load_all_sessions turns every game_*.jsonl file     *)
(* into one session dict; the directory is held as a bag: how many         *)
(* sessions of each kind it holds.                                         *)
(***************************************************************************)
SessionKinds ==
    [ won      |-> [theme |-> "The Desert Caravan", difficulty |-> "normal",
                    outcome |-> "victory", death_cause |-> None, death_day |-> 0,
                    final_day |-> 50, final_health |-> 60, events |-> 20],
      starved  |-> [theme |-> "The Desert Caravan", difficulty |-> "normal",
                    outcome |-> "death", death_cause |-> "starvation", death_day |-> 8,
                    final_day |-> 8, final_health |-> 0, events |-> 3],
      strolled |-> [theme |-> "Cyberpunk Heist", difficulty |-> "easy",
                    outcome |-> "victory", death_cause |-> None, death_day |-> 0,
                    final_day |-> 60, final_health |-> 80, events |-> 6],
      ambushed |-> [theme |-> "Cyberpunk Heist", difficulty |-> "hard",
                    outcome |-> "death", death_cause |-> "combat", death_day |-> 12,
                    final_day |-> 12, final_health |-> 0, events |-> 12] ]

LogDir(w, s) == [won |-> w, starved |-> s]

\* load_all_sessions: len(sessions)
SessionCount(sessions) == SumOver(sessions, [k \in DOMAIN sessions |-> 1])

CountWhere(sessions, outcome) ==
    SumOver(sessions,
            [k \in DOMAIN sessions |-> IF SessionKinds[k].outcome = outcome THEN 1 ELSE 0])

calculate_metrics(sessions) ==
    IF SessionCount(sessions) = 0 THEN EmptyDict
    ELSE [ total_sessions |-> SessionCount(sessions),
           win_rate   |-> <<CountWhere(sessions, "victory"), SessionCount(sessions)>>,
           death_rate |-> <<CountWhere(sessions, "death"), SessionCount(sessions)>>,
           avg_days   |-> <<SumOver(sessions,
                                    [k \in DOMAIN sessions |-> SessionKinds[k].final_day]),
                            SessionCount(sessions)>> ]

(***************************************************************************)
(* game_tuner.py: the analyses of run_analysis.  Each leaves adjustments   *)
(* (a dict) and insights (held as their number).                           *)
(***************************************************************************)
KindsWhere(field, value) == {k \in DOMAIN SessionKinds : SessionKinds[k][field] = value}

\* [s for s in sessions if ...]
Among(sessions, kinds) == [k \in DOMAIN sessions \cap kinds |-> sessions[k]]

\* sum(s[field] for s in sessions)
Total(sessions, field) ==
    SumOver(sessions, [k \in DOMAIN sessions |-> SessionKinds[k][field]])

\* d after d[k] = e[k] for every key of e
Updated(d, e) ==
    [k \in DOMAIN d \cup DOMAIN e |-> IF k \in DOMAIN e THEN e[k] ELSE d[k]]

Nothing == [adjustments |-> EmptyDict, insights |-> 0]

Insight == [adjustments |-> EmptyDict, insights |-> 1]

\* self.adjustments[key] = value with its insight
Advice(key, value) == [adjustments |-> [k \in {key} |-> value], insights |-> 1]

Both(a, b) ==
    [adjustments |-> Updated(a.adjustments, b.adjustments),
     insights    |-> a.insights + b.insights]

RatAbove(a, b) == a[1] * b[2] > b[1] * a[2]

\* the theme's win rate against the band 0.25 .. 0.75
ThemeSupply(theme, wins, plays) ==
    IF wins * 100 < 25 * plays
    THEN Advice("theme_" \o theme \o "_supply_multiplier", <<13, 10>>)
    ELSE IF wins * 100 > 75 * plays
    THEN Advice("theme_" \o theme \o "_supply_multiplier", <<8, 10>>)
    ELSE Nothing

\* avg_death_day < 20 and len(data["deaths"]) >= 3
EarlyDeaths(deaths) ==
    IF SessionCount(deaths) >= 3 /\ Total(deaths, "death_day") < 20 * SessionCount(deaths)
    THEN Insight
    ELSE Nothing

ThemeBalance(theme, played, min_sessions) ==
    IF SessionCount(played) < min_sessions
    THEN Nothing
    ELSE Both(ThemeSupply(theme, SessionCount(Among(played, KindsWhere("outcome", "victory"))),
                          SessionCount(played)),
              EarlyDeaths(Among(played, KindsWhere("outcome", "death"))))

RECURSIVE ThemeBalanceOver(_, _, _)
ThemeBalanceOver(sessions, min_sessions, themes) ==
    IF themes = {} THEN Nothing
    ELSE LET theme == CHOOSE t \in themes : TRUE
         IN  Both(ThemeBalance(theme, Among(sessions, KindsWhere("theme", theme)),
                               min_sessions),
                  ThemeBalanceOver(sessions, min_sessions, themes \ {theme}))

analyze_theme_balance(sessions, min_sessions) ==
    ThemeBalanceOver(sessions, min_sessions,
                     {SessionKinds[k].theme : k \in {j \in DOMAIN sessions : sessions[j] > 0}})

\* the sessions of a difficulty
Of(sessions, diff) == Among(sessions, KindsWhere("difficulty", diff))

Wins(sessions) == SessionCount(Among(sessions, KindsWhere("outcome", "victory")))

Deaths(sessions) == SessionCount(Among(sessions, KindsWhere("outcome", "death")))

\* diff in win_rates
Rated(sessions, min_sessions, diff) == SessionCount(Of(sessions, diff)) >= min_sessions

\* win_rates[diff]
WinRate(sessions, diff) == <<Wins(Of(sessions, diff)), SessionCount(Of(sessions, diff))>>

EasyAgainstHard(sessions, min_sessions) ==
    IF Rated(sessions, min_sessions, "easy") /\ Rated(sessions, min_sessions, "hard")
    THEN IF RatLess(WinRate(sessions, "easy"), WinRate(sessions, "hard"))
         THEN Insight
         ELSE IF RatLess(WinRate(sessions, "easy"), <<5, 10>>)
         THEN Advice("global_easy_boost", <<12, 10>>)
         ELSE Nothing
    ELSE Nothing

NormalSupplies(sessions, min_sessions) ==
    IF Rated(sessions, min_sessions, "normal")
          /\ RatLess(WinRate(sessions, "normal"), <<35, 100>>)
    THEN Advice("difficulty_normal_multiplier", <<115, 100>>)
    ELSE Nothing

analyze_difficulty_scaling(sessions, min_sessions) ==
    Both(EasyAgainstHard(sessions, min_sessions), NormalSupplies(sessions, min_sessions))

\* count / total_deaths * 100 > 50 for one cause
CauseAdvice(deaths, cause, key, value) ==
    IF SessionCount(Among(deaths, KindsWhere("death_cause", cause))) * 100
          > 50 * SessionCount(deaths)
    THEN Advice(key, value)
    ELSE Nothing

DeathCauses(deaths, min_sessions) ==
    IF SessionCount(deaths) < min_sessions
    THEN Nothing
    ELSE Both(Both(CauseAdvice(deaths, "starvation", "food_consumption_rate", <<85, 100>>),
                   CauseAdvice(deaths, "dehydration", "water_consumption_rate", <<85, 100>>)),
              CauseAdvice(deaths, "combat", "combat_damage_multiplier", <<9, 10>>))

analyze_death_causes(sessions, min_sessions) ==
    DeathCauses(Among(sessions, KindsWhere("outcome", "death")), min_sessions)

\* the death rate of a difficulty against its limit
DamageAdvice(played, min_sessions, diff, limit, value) ==
    IF SessionCount(played) >= min_sessions
          /\ RatAbove(<<Deaths(played), SessionCount(played)>>, limit)
    THEN Advice("difficulty_" \o diff \o "_damage_reduction", value)
    ELSE Nothing

analyze_damage_balance(sessions, min_sessions) ==
    Both(Both(DamageAdvice(Of(sessions, "easy"), min_sessions, "easy", <<60, 100>>, <<8, 10>>),
              DamageAdvice(Of(sessions, "normal"), min_sessions, "normal", <<75, 100>>,
                           <<9, 10>>)),
         DamageAdvice(Of(sessions, "hard"), min_sessions, "hard", <<90, 100>>, <<85, 100>>))

Abs(x) == IF x < 0 THEN 0 - x ELSE x

\* target / events_per_day, or 1.0 for no events
EventAdjustment(events, days, target) ==
    IF events > 0 THEN <<target[1] * days, target[2] * events>> ELSE <<1, 1>>

\* abs(events_per_day - target) / target > 0.30
EventAdvice(diff, events, days, target) ==
    IF days >= 50
          /\ Abs(events * target[2] - target[1] * days) * 10 > 3 * target[1] * days
    THEN Advice("difficulty_" \o diff \o "_event_chance", EventAdjustment(events, days, target))
    ELSE Nothing

EventRate(played, diff, target) ==
    IF SessionCount(played) = 0
    THEN Nothing
    ELSE EventAdvice(diff, Total(played, "events"), Total(played, "final_day"), target)

analyze_event_rates(sessions) ==
    Both(Both(EventRate(Of(sessions, "easy"), "easy", <<30, 100>>),
              EventRate(Of(sessions, "normal"), "normal", <<40, 100>>)),
         EventRate(Of(sessions, "hard"), "hard", <<55, 100>>))

\* the sessions that died before day 15
EarlyDeathKinds ==
    {k \in KindsWhere("outcome", "death") :
        SessionKinds[k].death_day # 0 /\ SessionKinds[k].death_day < 15}

HealthAdvice(early_deaths, min_sessions) ==
    IF SessionCount(early_deaths) < min_sessions
    THEN Nothing
    ELSE IF Total(early_deaths, "death_day") < 10 * SessionCount(early_deaths)
    THEN Advice("initial_health_multiplier", <<12, 10>>)
    ELSE IF Total(early_deaths, "death_day") < 12 * SessionCount(early_deaths)
    THEN Advice("initial_health_multiplier", <<11, 10>>)
    ELSE Nothing

analyze_health_survivability(sessions, min_sessions) ==
    HealthAdvice(Among(sessions, EarlyDeathKinds), min_sessions)

Pacing(completed, min_sessions) ==
    IF SessionCount(completed) < min_sessions
    THEN Nothing
    ELSE IF Total(completed, "final_day") < 30 * SessionCount(completed)
            \/ Total(completed, "final_day") > 100 * SessionCount(completed)
    THEN Insight
    ELSE Nothing

analyze_progression_pacing(sessions, min_sessions) ==
    Pacing(Among(sessions, KindsWhere("outcome", "victory")), min_sessions)

\* the analyses without the test of len(sessions)
AnalysisUngated(sessions, min_sessions) ==
    Both(Both(Both(analyze_theme_balance(sessions, min_sessions),
                   analyze_difficulty_scaling(sessions, min_sessions)),
              Both(analyze_death_causes(sessions, min_sessions),
                   analyze_damage_balance(sessions, min_sessions))),
         Both(Both(analyze_event_rates(sessions),
                   analyze_health_survivability(sessions, min_sessions)),
              analyze_progression_pacing(sessions, min_sessions)))

\* self.adjustments and self.insights after run_analysis
run_analysis(sessions, min_sessions) ==
    IF SessionCount(sessions) < min_sessions
    THEN Nothing
    ELSE Both(Both(Both(analyze_theme_balance(sessions, min_sessions),
                        analyze_difficulty_scaling(sessions, min_sessions)),
                   Both(analyze_death_causes(sessions, min_sessions),
                        analyze_damage_balance(sessions, min_sessions))),
              Both(Both(analyze_event_rates(sessions),
                        analyze_health_survivability(sessions, min_sessions)),
                   analyze_progression_pacing(sessions, min_sessions)))

(***************************************************************************)
(* game_tuner.py: GameTuner.save_tuning_config                             *)
(***************************************************************************)
HistoryKept == 5

DefaultBaseline ==
    [ difficulty_normal_multiplier       |-> <<10, 10>>,
      food_consumption_rate              |-> <<10, 10>>,
      difficulty_normal_damage_reduction |-> <<10, 10>>,
      difficulty_normal_event_chance     |-> <<40, 100>>,
      combat_damage_multiplier           |-> <<10, 10>>,
      initial_health_multiplier          |-> <<10, 10>> ]

\* existing_config: {} unless the file exists and parses
ExistingConfig(file) == IF FileExists(file) /\ Parseable(file) THEN file ELSE EmptyDict

ClassifyOutcome(tuning_history, previous_metrics, current_metrics) ==
    IF Truthy(tuning_history) /\ Truthy(previous_metrics)
    THEN LET prev_wr == DictGet(previous_metrics, "win_rate", RatOfInt(0))
             curr_wr == DictGet(current_metrics, "win_rate", RatOfInt(0))
         IN  IF RatLess(prev_wr, curr_wr) THEN "improving"
             ELSE IF RatLess(curr_wr, prev_wr) THEN "regressing"
             ELSE "neutral"
    ELSE "initial_tuning"

NewHistoryEntry(existing_config, adjustments, insights, sessions) ==
    LET tuning_history   == DictGet(existing_config, "tuning_history", <<>>)
        previous_metrics == DictGet(existing_config, "metrics_before", EmptyDict)
        current_metrics  == calculate_metrics(sessions)
    IN  [ iteration         |-> Len(tuning_history) + 1,
          sessions_analyzed |-> SessionCount(sessions),
          adjustments       |-> adjustments,
          metrics           |-> current_metrics,
          previous_metrics  |-> IF Truthy(tuning_history) THEN previous_metrics ELSE None,
          insights_count    |-> insights,
          outcome           |-> ClassifyOutcome(tuning_history, previous_metrics,
                                                current_metrics) ]

\* a config whose adjustments are laid over those of the file
WrittenMerged(existing_config, adjustments, insights, sessions) ==
    [ version             |-> "1.1",
      metadata            |-> [ tuning_iteration  |->
                                   Len(DictGet(existing_config, "tuning_history", <<>>)) + 1,
                                sessions_analyzed |-> SessionCount(sessions),
                                status            |->
                                   NewHistoryEntry(existing_config, adjustments, insights,
                                                   sessions).outcome ],
      baseline            |-> DictGet(existing_config, "baseline", DefaultBaseline),
      current_adjustments |-> Updated(DictGet(existing_config, "current_adjustments",
                                              EmptyDict),
                                      adjustments),
      metrics_before      |-> DictGet(existing_config, "metrics_before", EmptyDict),
      metrics_after       |-> calculate_metrics(sessions),
      tuning_history      |-> LastOf(Append(DictGet(existing_config, "tuning_history", <<>>),
                                            NewHistoryEntry(existing_config, adjustments,
                                                            insights, sessions)),
                                     HistoryKept),
      insights            |-> insights ]

WrittenConfig(existing_config, adjustments, insights, sessions) ==
    LET entry            == NewHistoryEntry(existing_config, adjustments, insights, sessions)
        tuning_history   == Append(DictGet(existing_config, "tuning_history", <<>>), entry)
        previous_metrics == DictGet(existing_config, "metrics_before", EmptyDict)
    IN  [ version             |-> "1.1",
          metadata            |-> [ tuning_iteration  |-> Len(tuning_history),
                                    sessions_analyzed |-> SessionCount(sessions),
                                    status            |-> entry.outcome ],
          baseline            |-> DictGet(existing_config, "baseline", DefaultBaseline),
          current_adjustments |-> adjustments,
          metrics_before      |-> previous_metrics,
          metrics_after       |-> calculate_metrics(sessions),
          tuning_history      |-> LastOf(tuning_history, HistoryKept),
          insights            |-> insights ]

(***************************************************************************)
(* Bounds of the exploration.                                              *)
(***************************************************************************)
MaxSaves == 7

\* directory contents with overall win rates 0.3, 0.5 and 0.3 again
LogDirs == {LogDir(3, 7), LogDir(10, 10), LogDir(12, 28)}

\* adjustment maps run_analysis leaves in self.adjustments, with the number
\* of insights it leaves beside them
AnalysisResults ==
    { [adjustments |-> [food_consumption_rate |-> <<85, 100>>,
                        difficulty_normal_multiplier |-> <<115, 100>>,
                        initial_health_multiplier |-> <<12, 10>>],
       insights |-> 3],
      [adjustments |-> [food_consumption_rate |-> <<85, 100>>],
       insights |-> 1] }

SaveTuningConfig ==
    /\ saves < MaxSaves
    /\ \E a \in AnalysisResults, sessions \in LogDirs :
          tuning_file' = WrittenConfig(ExistingConfig(tuning_file), a.adjustments,
                                       a.insights, sessions)
    /\ saves' = saves + 1
    /\ UNCHANGED <<TUNING_CONFIG, TUNING_LOADED, playVars>>

\* game_tuner.py --reset
ResetTuningConfig ==
    /\ FileExists(tuning_file)
    /\ tuning_file' = NoFile
    /\ UNCHANGED <<saves, TUNING_CONFIG, TUNING_LOADED, playVars>>

(***************************************************************************)
(* main.py: the tuning globals of a game process                           *)
(***************************************************************************)
\* a new game process: the module-level initial values
GameProcessStart ==
    /\ TUNING_LOADED
    /\ TUNING_CONFIG' = EmptyDict
    /\ TUNING_LOADED' = FALSE
    /\ UNCHANGED <<tunerVars, playVars>>

\* TUNING_CONFIG after load_tuning_config has read the file; an exception
\* of json.load is passed over
LoadedConfig(file, config) ==
    IF FileExists(file) /\ Parseable(file)
    THEN DictGet(file, "adjustments", EmptyDict)
    ELSE config

load_tuning_config ==
    /\ ~TUNING_LOADED
    /\ TUNING_CONFIG' = LoadedConfig(tuning_file, TUNING_CONFIG)
    /\ TUNING_LOADED' = TRUE
    /\ UNCHANGED <<tunerVars, playVars>>

DblOne == DblFromInt(1)

\* a parameter without an override comes back as 1.0
TunedValueOrOne(config, param_name, default) ==
    IF param_name \in DOMAIN config
    THEN DblMul(default, DblLit(config[param_name][1], config[param_name][2]))
    ELSE DblOne

get_tuned_value(config, param_name, default) ==
    IF param_name \in DOMAIN config
    THEN DblMul(default, DblLit(config[param_name][1], config[param_name][2]))
    ELSE default

(***************************************************************************)
(* main.py: difficulty settings, themes, companions                        *)
(***************************************************************************)
Difficulties == {"easy", "normal", "hard"}

DIFFICULTY_SETTINGS ==
    [ easy   |-> [supply_mult |-> <<14, 10>>, damage_mult |-> <<6, 10>>,
                  event_chance |-> <<30, 100>>, daily_consume |-> <<7, 10>>],
      normal |-> [supply_mult |-> <<10, 10>>, damage_mult |-> <<10, 10>>,
                  event_chance |-> <<40, 100>>, daily_consume |-> <<10, 10>>],
      hard   |-> [supply_mult |-> <<7, 10>>, damage_mult |-> <<15, 10>>,
                  event_chance |-> <<55, 100>>, daily_consume |-> <<13, 10>>] ]

\* DIFFICULTY_SETTINGS[difficulty][key] as the float the literal denotes
Setting(difficulty, key) ==
    DblLit(DIFFICULTY_SETTINGS[difficulty][key][1], DIFFICULTY_SETTINGS[difficulty][key][2])

THEMES ==
    [ DESERT |-> [name |-> "The Desert Caravan", total_distance |-> 2000,
                  starting_supplies |-> [food |-> 60, water |-> 70, fuel |-> 40],
                  special_item |-> "Quicksilver Flask", daily_distance |-> <<15, 45>>],
      SPACE  |-> [name |-> "Space Colony Expedition", total_distance |-> 2000,
                  starting_supplies |-> [food |-> 55, water |-> 55, fuel |-> 50],
                  special_item |-> "Solar-Charger", daily_distance |-> <<20, 55>>],
      MIST   |-> [name |-> "Lost Kingdom of the Mist", total_distance |-> 2000,
                  starting_supplies |-> [food |-> 65, water |-> 50, fuel |-> 35],
                  special_item |-> "Eldritch Lantern", daily_distance |-> <<10, 40>>],
      TIME   |-> [name |-> "Time-Travel Expedition", total_distance |-> 2000,
                  starting_supplies |-> [food |-> 50, water |-> 50, fuel |-> 55],
                  special_item |-> "Chrono-Filter", daily_distance |-> <<20, 60>>],
      CYBER  |-> [name |-> "Cyberpunk Heist", total_distance |-> 2000,
                  starting_supplies |-> [food |-> 45, water |-> 45, fuel |-> 60],
                  special_item |-> "Ghost-Cipher", daily_distance |-> <<25, 65>>],
      AI_GENERATED |->
                 [name |-> "AI-Generated Adventure", total_distance |-> 2000,
                  starting_supplies |-> [food |-> 60, water |-> 70, fuel |-> 50],
                  special_item |-> "Adaptive Toolkit", daily_distance |-> <<20, 50>>] ]

NoCompanion == [name |-> "None", bonus_type |-> "none", bonus_value |-> 0]

Companion(name, bonus_type, bonus_value) ==
    [name |-> name, bonus_type |-> bonus_type, bonus_value |-> bonus_value]

StatusEffects == {"POISONED", "INSPIRED", "EXHAUSTED", "SHIELDED", "LUCKY"}

\* status_effects: the remaining days of every effect, 0 for one not in the dict
NoEffects == [e \in StatusEffects |-> 0]

HasEffect(p, e) == p.status_effects[e] > 0

Max2(a, b) == IF a >= b THEN a ELSE b

Min2(a, b) == IF a <= b THEN a ELSE b

clamp(value, lo, hi) == Max2(lo, Min2(hi, value))

(***************************************************************************)
(* main.py: class Player                                                   *)
(***************************************************************************)
\* the supplies __post_init__ computes for a player created without any
EasyBoost(mult, difficulty, config) ==
    IF difficulty = "easy"
    THEN DblMul(mult, get_tuned_value(config, "global_easy_boost", DblOne))
    ELSE mult

\* mult of __post_init__
SupplyMult(theme, difficulty, config) ==
    DblMul(EasyBoost(DblMul(Setting(difficulty, "supply_mult"),
                            get_tuned_value(config,
                                "theme_" \o THEMES[theme].name \o "_supply_multiplier",
                                DblOne)),
                     difficulty, config),
           get_tuned_value(config, "difficulty_" \o difficulty \o "_multiplier", DblOne))

\* {k: int(v * mult) for k, v in theme.starting_supplies.items()}
SuppliesTimes(theme, mult) ==
    [k \in {"food", "water", "fuel"} |->
        DblTrunc(DblMul(DblFromInt(THEMES[theme].starting_supplies[k]), mult))]

StartingSupplies(theme, difficulty, config) ==
    SuppliesTimes(theme, SupplyMult(theme, difficulty, config))

\* the health __post_init__ leaves in a player constructed with this health
HealthTimes(health, health_mult) ==
    IF health_mult # DblOne
    THEN DblTrunc(DblMul(DblFromInt(health), health_mult))
    ELSE health

StartingHealth(health, config) ==
    HealthTimes(health, get_tuned_value(config, "initial_health_multiplier", DblOne))

\* Player(name, theme, difficulty) after __post_init__
NewPlayer(theme, difficulty, config) ==
    [ theme              |-> theme,
      difficulty         |-> difficulty,
      health             |-> StartingHealth(100, config),
      morale             |-> 100,
      supplies           |-> StartingSupplies(theme, difficulty, config),
      inventory          |-> {},
      distance_travelled |-> 0,
      days               |-> 0,
      companion          |-> NoCompanion,
      status_effects     |-> NoEffects,
      time_of_day        |-> "DAWN",
      weather            |-> "CLEAR",
      scout_count        |-> 0,
      combats_survived   |-> 0,
      milestones_hit     |-> {},
      food_debt          |-> <<>>,
      water_debt         |-> <<>> ]

\* no Player object exists
NoPlayer == [theme |-> "None"]

\* a pool that takes every delta as it comes
SupplyUnclamped(p, key, delta) == [p EXCEPT !.supplies[key] = @ + delta]

\* a pool that is capped but can be overdrawn
SupplyUnfloored(p, key, delta) == [p EXCEPT !.supplies[key] = Min2(999, @ + delta)]

adjust_supply(p, key, delta) ==
    [p EXCEPT !.supplies[key] = clamp(@ + delta, 0, 999)]

\* mult of Player.damage
\* if StatusEffect.SHIELDED in self.status_effects: mult *= 0.5
Shielded(p, mult) ==
    IF HasEffect(p, "SHIELDED") THEN DblMul(mult, DblLit(5, 10)) ELSE mult

\* a combat companion who draws the blows: mult *= 1.2
Provoked(p, mult) ==
    IF p.companion.bonus_type = "combat" THEN DblMul(mult, DblLit(12, 10)) ELSE mult

\* if self.companion and self.companion.bonus_type == "combat": mult *= 0.8
Defended(p, mult) ==
    IF p.companion.bonus_type = "combat" THEN DblMul(mult, DblLit(8, 10)) ELSE mult

DamageMult(p, config) ==
    Defended(p, Shielded(p,
        DblMul(DblMul(Setting(p.difficulty, "damage_mult"),
                      get_tuned_value(config, "combat_damage_multiplier", DblOne)),
               get_tuned_value(config,
                   "difficulty_" \o p.difficulty \o "_damage_reduction", DblOne))))

\* amount * mult
DamageScaled(p, config, amount) == DblMul(DblFromInt(amount), DamageMult(p, config))

\* the scaled amount truncated, with no least damage
DamageUnfloored(p, config, amount) == DblTrunc(DamageScaled(p, config, amount))

\* the scaled amount rounded to the nearest integer, and at least 1
DamageRounded(p, config, amount) == Max2(1, DblRoundInt(DamageScaled(p, config, amount)))

\* actual of Player.damage
DamageApplied(p, config, amount) == Max2(1, DblTrunc(DamageScaled(p, config, amount)))

damage(p, config, amount) ==
    [p EXCEPT !.health = @ - DamageApplied(p, config, amount)]

heal(p, amount) == [p EXCEPT !.health = clamp(@ + amount, 0, 100)]

\* the rate, the cost and the debt left for one pool in consume_daily
ConsumePaid(owed, cost) == [cost |-> cost, debt |-> DblSub(owed, DblFromInt(cost))]

\* a call that deducts the whole units and forgets the remainder
ConsumeForgets(owed) == ConsumePaid(DblFromInt(DblTrunc(owed)), DblTrunc(owed))

ConsumeOwed(owed) == ConsumePaid(owed, DblTrunc(owed))

ConsumeStep(p, config, debt, rate_key) ==
    ConsumeOwed(DblAdd(debt, DblMul(Setting(p.difficulty, "daily_consume"),
                                    get_tuned_value(config, rate_key, DblOne))))

\* the extra unit an exhausted player consumes
Exhaustion(p) == IF HasEffect(p, "EXHAUSTED") THEN 1 ELSE 0

\* food_cost after the companion's saving
FoodCost(p, food_cost) ==
    IF p.companion.bonus_type = "supply" THEN Max2(0, food_cost - 1) ELSE food_cost

ConsumeDeduct(p, food, water) ==
    [p EXCEPT !.food_debt = food.debt,
              !.water_debt = water.debt,
              !.supplies.food = Max2(0, @ - FoodCost(p, food.cost + Exhaustion(p))),
              !.supplies.water = Max2(0, @ - (water.cost + Exhaustion(p)))]

consume_daily(p, config) ==
    ConsumeDeduct(p, ConsumeStep(p, config, p.food_debt, "food_consumption_rate"),
                     ConsumeStep(p, config, p.water_debt, "water_consumption_rate"))

is_alive(p) == p.health > 0

\* an effect whose new duration is added to what remains of it
EffectStacked(p, effect, duration) == [p EXCEPT !.status_effects[effect] = @ + duration]

add_effect(p, effect, duration) == [p EXCEPT !.status_effects[effect] = duration]

\* a tick that counts the days down but never deletes an effect
TickKeepsLast(p) ==
    [p EXCEPT !.health = IF HasEffect(p, "POISONED") THEN @ - 5 ELSE @,
              !.morale = IF HasEffect(p, "INSPIRED") THEN clamp(@ + 3, 0, 100) ELSE @,
              !.status_effects = [e \in StatusEffects |-> IF @[e] <= 1 THEN @[e] ELSE @[e] - 1]]

tick_effects(p) ==
    [p EXCEPT !.health = IF HasEffect(p, "POISONED") THEN @ - 5 ELSE @,
              !.morale = IF HasEffect(p, "INSPIRED") THEN clamp(@ + 3, 0, 100) ELSE @,
              !.status_effects = [e \in StatusEffects |-> IF @[e] <= 1 THEN 0 ELSE @[e] - 1]]

has(p, item) == item \in p.inventory

add_item(p, item) == [p EXCEPT !.inventory = @ \cup {item}]

remove_item(p, item) == [p EXCEPT !.inventory = @ \ {item}]

\* player.morale += delta, player.morale -= delta
AddMorale(p, delta) == [p EXCEPT !.morale = @ + delta]

\* player.morale = int(clamp(player.morale + delta, 0, 100))
BoostMorale(p, delta) == [p EXCEPT !.morale = clamp(@ + delta, 0, 100)]

\* player.distance_travelled += delta
AddDistance(p, delta) == [p EXCEPT !.distance_travelled = @ + delta]

\* player.combats_survived += 1
Survived(p) == [p EXCEPT !.combats_survived = @ + 1]

HasCompanion(p) == p.companion # NoCompanion

\* random.randint(lo, hi): the draws explored are the two ends of the range
RandInt(lo, hi) == {lo, hi}

Weathers == {"CLEAR", "RAIN", "FOG", "STORM"}

COMPANION_POOL ==
    [ DESERT |-> {Companion("Kael", "scout", 8), Companion("Mirra", "health", 5),
                  Companion("Daro", "combat", 6)},
      SPACE  |-> {Companion("AXON-7", "supply", 4), Companion("Dr. Voss", "health", 5),
                  Companion("Renko", "scout", 7)},
      MIST   |-> {Companion("Thalia", "scout", 9), Companion("Grumm", "combat", 7),
                  Companion("Elara", "morale", 8)},
      TIME   |-> {Companion("Epoch", "scout", 6), Companion("Lysander", "morale", 7),
                  Companion("Bolt", "supply", 5)},
      CYBER  |-> {Companion("Nyx", "combat", 8), Companion("Pixel", "scout", 6),
                  Companion("Patch", "health", 6)},
      AI_GENERATED |-> {} ]

ITEM_CATALOGUE ==
    { "Quicksilver Flask", "Eldritch Lantern", "Chrono-Filter", "Solar-Charger",
      "Ghost-Cipher", "Signal-Flare", "Ironbark Shield", "Wanderer's Compass",
      "Healer's Salve", "Morale Charm", "Elixir of Vitality", "Beacon Array",
      "Guardian's Mantle", "Purified Tonic", "Shadow Cloak", "Stormglass Vial",
      "Ember Stone" }

CRAFT_RECIPES ==
    { <<"Healer's Salve", "Morale Charm", "Elixir of Vitality">>,
      <<"Signal-Flare", "Solar-Charger", "Beacon Array">>,
      <<"Ironbark Shield", "Wanderer's Compass", "Guardian's Mantle">>,
      <<"Quicksilver Flask", "Healer's Salve", "Purified Tonic">> }

(***************************************************************************)
(* main.py: the events.  Each is the set of players the event can leave,   *)
(* over the choices at its prompts and the random draws it makes.          *)
(***************************************************************************)
BanditMaxChoice(p) ==
    IF has(p, "Signal-Flare") /\ p.companion.bonus_type = "combat" THEN 6
    ELSE IF has(p, "Signal-Flare") \/ p.companion.bonus_type = "combat" THEN 5
    ELSE 4

BanditFight(p, config) ==
    IF has(p, "Ironbark Shield") \/ has(p, "Guardian's Mantle")
    THEN LET q == remove_item(p, "Ironbark Shield")
         IN  {Survived(q)}
                \cup {Survived(add_item(q, loot)) : loot \in {"Healer's Salve", "Morale Charm"}}
    ELSE {Survived(damage(adjust_supply(p, "food", -3), config, a)) : a \in RandInt(5, 12)}
            \cup {Survived(AddMorale(adjust_supply(damage(p, config, 25), "food", -5), -10))}

BanditChoice(p, config, choice) ==
    CASE choice = 1 -> BanditFight(p, config)
      [] choice = 2 -> { adjust_supply(p, "fuel", -4),
                         AddMorale(damage(p, config, 15), -8) }
      [] choice = 3 -> { adjust_supply(adjust_supply(p, "food", -8), "water", -5),
                         damage(adjust_supply(adjust_supply(p, "food", -5), "water", -3),
                                config, 15) }
      [] choice = 4 -> { AddMorale(p, 15),
                         AddMorale(damage(p, config, 20), -5) }
      [] choice = 5 /\ p.companion.bonus_type = "combat" ->
                       { AddMorale(Survived(p), 10),
                         adjust_supply(AddMorale(Survived(p), 10), "food", 5) }
      [] OTHER -> IF has(p, "Signal-Flare")
                  THEN LET q == remove_item(p, "Signal-Flare")
                       IN  {AddMorale(q, 5), Survived(damage(q, config, 12))}
                  ELSE {p}

event_bandit(p, config) ==
    IF has(p, "Shadow Cloak")
    THEN {remove_item(p, "Shadow Cloak")}
    ELSE UNION {BanditChoice(p, config, choice) : choice \in 1..BanditMaxChoice(p)}

event_river(p, config) ==
    { p, adjust_supply(adjust_supply(p, "fuel", -3), "water", -3) }
       \cup { IF \/ has(p, "Eldritch Lantern") \/ has(p, "Wanderer's Compass")
                 \/ p.companion.bonus_type = "scout"
              THEN p
              ELSE consume_daily(p, config) }
       \cup { adjust_supply(p, "fuel", -5) }

StormMaxChoice(p) ==
    IF has(p, "Stormglass Vial") /\ HasCompanion(p) THEN 5
    ELSE IF has(p, "Stormglass Vial") \/ HasCompanion(p) THEN 4
    ELSE 3

StormChoice(p, config, choice) ==
    CASE choice = 1 -> { adjust_supply(adjust_supply(p, "food", -3), "water", -2) }
      [] choice = 2 ->
            { AddDistance(adjust_supply(p, "fuel", -2), d) : d \in RandInt(5, 10) }
               \cup { adjust_supply(adjust_supply(damage(p, config, 20), "food", -4),
                                    "water", -3) }
      [] choice = 3 ->
            { AddMorale(AddDistance(p, d), 10) : d \in RandInt(10, 20) }
               \cup { damage(AddDistance(p, -d), config, 10) : d \in RandInt(5, 10) }
      [] choice = 4 /\ has(p, "Stormglass Vial") ->
            { AddDistance(p, d) : d \in RandInt(8, 15) }
      [] OTHER ->
            IF p.companion.bonus_type = "scout"
            THEN { adjust_supply(AddDistance(p, d), "food", -1) : d \in RandInt(10, 15) }
            ELSE { AddMorale(adjust_supply(adjust_supply(p, "food", -2), "water", -1), 5) }

event_storm(p, config) ==
    UNION {StormChoice(p, config, choice) : choice \in 1..StormMaxChoice(p)}

event_wildlife(p, config) ==
    { adjust_supply(adjust_supply(p, "food", 5), "water", 5),
      damage(p, config, 15),
      add_effect(damage(p, config, 15), "POISONED", 3) }
       \cup { add_item(p, "Signal-Flare"), AddMorale(damage(p, config, 10), -5) }
       \cup { p }

\* choice 1 (trade) and choice 3 (walk on); choice 2 opens the dice game
event_trader(p, config) ==
    LET tradeable == ITEM_CATALOGUE \ p.inventory
    IN  ( IF tradeable = {}
          THEN {AddMorale(p, 5)}
          ELSE {p} \cup
               { add_item(adjust_supply(adjust_supply(p, "food", -cost_food),
                                        "water", -cost_water), offered) :
                    <<offered, cost_food, cost_water>> \in
                        { t \in tradeable \X RandInt(5, 12) \X RandInt(3, 8) :
                             /\ p.supplies.food >= t[2]
                             /\ p.supplies.water >= t[3] } } )
           \cup {p}

event_discovery(p, config) ==
    { AddMorale(adjust_supply(adjust_supply(adjust_supply(p, "food", 8), "water", 6),
                              "fuel", 4), 10),
      adjust_supply(damage(p, config, 15), "food", 4),
      adjust_supply(adjust_supply(p, "food", 4), "water", 3),
      AddMorale(p, 5) }

event_morale(p, config) ==
    { IF p.companion.bonus_type = "morale"
      THEN BoostMorale(BoostMorale(p, boost), p.companion.bonus_value)
      ELSE BoostMorale(p, boost) : boost \in RandInt(10, 20) }
       \cup { adjust_supply(p, "fuel", 5),
              add_effect(heal(p, 5), "SHIELDED", 1) }
       \cup ( IF HasCompanion(p) THEN {heal(BoostMorale(p, 8), 3)} ELSE {} )

event_special_item(p, config) ==
    LET item == THEMES[p.theme].special_item
    IN  IF has(p, item)
        THEN {adjust_supply(adjust_supply(p, "food", 5), "water", 5)}
        ELSE {add_item(p, item), p}

event_riddle(p, config) ==
    LET solved      == heal(AddMorale(p, 15), 10)
        bonus_items == {"Shadow Cloak", "Stormglass Vial", "Ember Stone"} \ p.inventory
    IN  {solved}
           \cup {add_item(solved, gift) : gift \in bonus_items}
           \cup {AddMorale(damage(p, config, 15), -10)}

event_companion(p, config) ==
    IF HasCompanion(p)
    THEN {AddDistance(p, bonus) : bonus \in RandInt(15, 30)} \cup {consume_daily(p, config)}
    ELSE IF COMPANION_POOL[p.theme] = {}
    THEN {p}
    ELSE {[p EXCEPT !.companion = companion] : companion \in COMPANION_POOL[p.theme]}
            \cup {p}

event_ambush_elite(p, config) ==
    { Survived(add_effect(AddMorale(adjust_supply(adjust_supply(p, "food", 8), "water", 5),
                                    15), "INSPIRED", 3)),
      Survived(AddMorale(damage(p, config, 35), -15)) }
       \cup { Survived(adjust_supply(damage(p, config, 15), "fuel", -5)) }
       \cup ( IF p.companion.bonus_type = "scout" \/ has(p, "Wanderer's Compass")
              THEN {Survived(AddMorale(p, 10))}
              ELSE {Survived(adjust_supply(p, "fuel", -3)),
                    Survived(damage(p, config, 20))} )
       \cup { IF p.morale >= 60
              THEN add_effect(p, "LUCKY", 3)
              ELSE Survived(damage(p, config, 25)) }

WeatherShift(p, new) ==
    LET q == [p EXCEPT !.weather = new]
    IN  CASE new = "STORM" -> AddMorale(adjust_supply(q, "water", -2), -5)
          [] new = "CLEAR" -> AddMorale(q, 5)
          [] new = "FOG"   -> q
          [] new = "RAIN"  -> IF p.theme = "DESERT"
                              THEN adjust_supply(q, "water", 8)
                              ELSE AddMorale(q, -3)

event_weather_shift(p, config) ==
    {WeatherShift(p, new) : new \in Weathers \ {p.weather}}

\* the responses whose lambdas change the player: the others only compute
\* p.morale + n or p.distance_travelled + n and drop the value
event_generated_scenario(p, config) ==
    {p}
       \cup {damage(p, config, a) : a \in RandInt(10, 20) \cup RandInt(8, 15) \cup RandInt(10, 18)}
       \cup {adjust_supply(p, "food", -2)}
       \cup ( IF Cardinality(p.inventory) < 8
              THEN {add_item(p, item) :
                       item \in {"Healer's Salve", "Morale Charm", "Signal-Flare"}}
              ELSE {} )

\* one accepted bet of _mini_game_dice: won, lost, drawn
DiceRoll(p) == {adjust_supply(p, "food", 5), adjust_supply(p, "food", -5), p}

(***************************************************************************)
(* main.py: the day                                                        *)
(***************************************************************************)
\* a day on which the time of day stays where it is
TimeStandsStill(p) == p

advance_time_of_day(p) ==
    LET next == CASE p.time_of_day = "DAWN"  -> "DAY"
                  [] p.time_of_day = "DAY"   -> "DUSK"
                  [] p.time_of_day = "DUSK"  -> "NIGHT"
                  [] p.time_of_day = "NIGHT" -> "DAWN"
    IN  [p EXCEPT !.time_of_day = next,
                  !.morale = IF next = "NIGHT" /\ ~has(p, "Ember Stone")
                             THEN Max2(0, @ - 3)
                             ELSE @]

\* pct = int(distance_travelled / total_distance * 100) reaches a threshold
\* of 25, 50 or 75 exactly when distance_travelled * 100 reaches threshold *
\* total_distance: the quotients 0.25, 0.5 and 0.75 are exact doubles
check_milestones(p) ==
    [p EXCEPT !.milestones_hit =
        @ \cup {threshold \in {25, 50, 75} :
                   p.distance_travelled * 100 >= threshold * THEMES[p.theme].total_distance}]

\* the end of daily_action after travel, rest or scout; weather is the draw
\* of advance_weather
DayEnd(p, weather) ==
    check_milestones(
        tick_effects([advance_time_of_day([p EXCEPT !.days = @ + 1])
                         EXCEPT !.weather = weather]))

\* penalties of which only the first that is due is applied
PenaltiesFirstOnly(p) ==
    [p EXCEPT !.health = @ - (IF p.supplies.food <= 0 THEN 8
                              ELSE IF p.supplies.water <= 0 THEN 12
                              ELSE IF p.morale <= 10 THEN 3
                              ELSE IF HasEffect(p, "EXHAUSTED") THEN 2 ELSE 0)]

apply_penalties(p) ==
    [p EXCEPT !.health = @ - (IF p.supplies.food <= 0 THEN 8 ELSE 0)
                           - (IF p.supplies.water <= 0 THEN 12 ELSE 0)
                           - (IF p.morale <= 10 THEN 3 ELSE 0)
                           - (IF HasEffect(p, "EXHAUSTED") THEN 2 ELSE 0)]

\* a record of the session log, by its type alone
LogRecord(type) == [type |-> type]

\* the list penalties of apply_penalties
PenaltyNames(p) ==
    (IF p.supplies.food <= 0 THEN <<"starvation">> ELSE <<>>)
       \o (IF p.supplies.water <= 0 THEN <<"dehydration">> ELSE <<>>)
       \o (IF p.morale <= 10 THEN <<"low_morale">> ELSE <<>>)
       \o (IF HasEffect(p, "EXHAUSTED") THEN <<"exhaustion">> ELSE <<>>)

\* a log that gains one record for each penalty
PenaltyPerRecord(p) ==
    [i \in 1..Len(PenaltyNames(p)) |->
        [type |-> "penalties_applied", penalties |-> <<PenaltyNames(p)[i]>>,
         health |-> apply_penalties(p).health]]

\* what apply_penalties appends to the session log:
\* if penalties: log_game("penalties_applied", {penalties, health})
PenaltiesLogged(p) ==
    IF PenaltyNames(p) = <<>>
    THEN <<>>
    ELSE << [type |-> "penalties_applied", penalties |-> PenaltyNames(p),
             health |-> apply_penalties(p).health] >>

\* dist of daily_action's travel branch for the draw roll of random.randint
TravelBonus(p) ==
    (IF has(p, "Wanderer's Compass") \/ has(p, "Guardian's Mantle") THEN 10 ELSE 0)
       + (IF p.companion.bonus_type = "scout" THEN p.companion.bonus_value ELSE 0)

\* a journey on which the weather changes nothing
WeatherBlind(p, dist) == dist

InWeather(p, dist) ==
    CASE p.weather = "STORM" -> Max2(5, dist - 15)
      [] p.weather = "FOG"   -> Max2(5, dist - 8)
      [] p.weather = "CLEAR" -> dist + 5
      [] OTHER               -> dist

AtNight(p, dist) ==
    IF p.time_of_day = "NIGHT" /\ ~has(p, "Eldritch Lantern") /\ ~has(p, "Ember Stone")
    THEN Max2(5, dist - 10)
    ELSE dist

Inspired(p, dist) == IF HasEffect(p, "INSPIRED") THEN dist + 8 ELSE dist

TravelDistance(p, roll) == Inspired(p, AtNight(p, InWeather(p, roll + TravelBonus(p))))

\* daily_action, choice 1, up to the draw that decides on an event
Travelled(p, config, roll) ==
    [consume_daily(AddDistance(p, TravelDistance(p, roll)), config)
        EXCEPT !.supplies.fuel = Max2(0, @ - 1),
               !.morale = IF @ > 50 THEN @ - 1 ELSE IF @ < 50 THEN @ + 1 ELSE @]

\* event_chance of the travel branch
EventChance(p, config) ==
    DblMul(Setting(p.difficulty, "event_chance"),
           get_tuned_value(config, "difficulty_" \o p.difficulty \o "_event_chance", DblOne))

\* del player.status_effects[StatusEffect.POISONED], when the draw cures
Cured(q, cured) == IF cured THEN [q EXCEPT !.status_effects["POISONED"] = 0] ELSE q

\* daily_action, choice 2; cured: the draw that lifts the poison
Rested(p, config, roll, cured) ==
    Cured(consume_daily(heal(p, roll + (IF p.companion.bonus_type = "health"
                                        THEN p.companion.bonus_value ELSE 0)),
                        config),
          cured)

\* daily_action, choice 3, up to the draw that decides on an event
Scouted(p, config) == consume_daily([p EXCEPT !.scout_count = @ + 1], config)

UseItemEffect(p, item) ==
    CASE item = "Quicksilver Flask"  -> adjust_supply(p, "water", 10)
      [] item = "Solar-Charger"      -> adjust_supply(p, "fuel", 15)
      [] item = "Healer's Salve"     -> heal(p, 25)
      [] item = "Morale Charm"       -> BoostMorale(p, 20)
      [] item = "Elixir of Vitality" -> BoostMorale(heal(p, 40), 30)
      [] item = "Purified Tonic"     -> heal(adjust_supply(p, "water", 15), 20)
      [] item = "Ember Stone"        -> add_effect(heal(p, 10), "SHIELDED", 2)

Consumables ==
    { "Quicksilver Flask", "Solar-Charger", "Healer's Salve", "Morale Charm",
      "Elixir of Vitality", "Purified Tonic", "Ember Stone" }

\* a menu whose item, once used, lets a day pass
UseItemTakesDay(p) ==
    {p} \cup {[remove_item(UseItemEffect(p, item), item) EXCEPT !.days = @ + 1] :
                 item \in p.inventory \cap Consumables}

\* nothing usable or Cancel, or one usable item used up
use_item(p) ==
    {p} \cup {remove_item(UseItemEffect(p, item), item) : item \in p.inventory \cap Consumables}

\* nothing available or Cancel, or one available recipe crafted
craft_menu(p) ==
    {p} \cup { add_item(remove_item(remove_item(p, r[1]), r[2]), r[3]) :
                  r \in {x \in CRAFT_RECIPES : has(p, x[1]) /\ has(p, x[2]) /\ ~has(p, x[3])} }

FinalChoice(p, config, choice) ==
    CASE choice = 1 -> IF p.health >= 60
                       THEN damage(p, config, 30)
                       ELSE adjust_supply(damage(p, config, 50), "food", -10)
      [] choice = 2 -> IF has(p, THEMES[p.theme].special_item)
                       THEN remove_item(p, THEMES[p.theme].special_item)
                       ELSE damage(p, config, 40)
      [] choice = 3 -> IF p.morale >= 50
                       THEN adjust_supply(p, "fuel", -5)
                       ELSE adjust_supply(damage(p, config, 25), "food", -5)
      [] choice = 4 -> IF p.companion.bonus_type \in {"scout", "combat"}
                       THEN AddMorale(p, 10)
                       ELSE heal(p, 15)

\* the choices get_choice accepts: range(1, max_choice)
final_encounter(p, config) ==
    {FinalChoice(p, config, choice) : choice \in 1..(IF HasCompanion(p) THEN 4 ELSE 3)}

\* no game loop is running
NoSession ==
    [pc |-> "none", day_count |-> 0, max_days |-> 0, dice_rounds |-> 0, explored |-> 0,
     looks |-> 0, log |-> <<>>]

\* no Player method has been called
NoCall == [op |-> "none", n |-> 0, arg |-> 0, before |-> NoPlayer, first |-> NoPlayer]

\* the record of one more call of a method on the player
Called(op, arg) ==
    [ op     |-> op,
      n      |-> IF call.op = op THEN call.n + 1 ELSE 1,
      arg    |-> arg,
      before |-> player,
      first  |-> IF call.op = op THEN call.first ELSE player ]

(***************************************************************************)
(* The tuner and the game processes it feeds, from an empty directory.     *)
(***************************************************************************)
TunerInit ==
    /\ tuning_file = NoFile
    /\ saves = 0
    /\ TUNING_CONFIG = EmptyDict
    /\ TUNING_LOADED = FALSE
    /\ player = NoPlayer
    /\ call = NoCall
    /\ session = NoSession

TunerNext ==
    \/ SaveTuningConfig
    \/ ResetTuningConfig
    \/ GameProcessStart
    \/ load_tuning_config

SpecTuner == TunerInit /\ [][TunerNext]_vars
(***************************************************************************)
(* The same processes when the tuner first runs beside a game_tuning.json  *)
(* that is already on disk: a file in the layout main.py reads, carrying   *)
(* the metrics of the sessions played before any tuning.                   *)
(***************************************************************************)
FileOnDisk ==
    [ adjustments    |-> [food_consumption_rate |-> <<9, 10>>],
      metrics_before |-> [ total_sessions |-> 10,
                           win_rate       |-> <<4, 10>>,
                           death_rate     |-> <<6, 10>>,
                           avg_days       |-> <<248, 10>> ] ]

TunerOnDiskInit ==
    /\ tuning_file = FileOnDisk
    /\ saves = 0
    /\ TUNING_CONFIG = EmptyDict
    /\ TUNING_LOADED = FALSE
    /\ player = NoPlayer
    /\ call = NoCall
    /\ session = NoSession

SpecTunerOnDisk == TunerOnDiskInit /\ [][TunerNext]_vars

(***************************************************************************)
(* Properties of the adjustment file.                                      *)
(***************************************************************************)
\* a step of save_tuning_config
SaveStep == saves' = saves + 1

\* a step in which a game process reads game_tuning.json
LoadStep == ~TUNING_LOADED /\ TUNING_LOADED' /\ FileExists(tuning_file)

HistoryOf(file) == DictGet(ExistingConfig(file), "tuning_history", <<>>)

\* the outcome a win rate earns against the win rate of the entry before it
OutcomeAgainst(prev_wr, curr_wr) ==
    IF RatLess(prev_wr, curr_wr) THEN "improving"
    ELSE IF RatLess(curr_wr, prev_wr) THEN "regressing"
    ELSE "neutral"

\* C1: a game process that loads the file save_tuning_config wrote resolves
\* every key k the tuner wrote to base * a(k): get_tuned_value(k, base) is
\* base times the adjustment the file holds for k.
C1_RoundTrip ==
    [][ LoadStep =>
          LET a == DictGet(tuning_file, "current_adjustments", EmptyDict)
          IN  \A k \in DOMAIN a :
                 \A base \in {DblOne, DblLit(6, 10)} :
                    get_tuned_value(TUNING_CONFIG', k, base)
                       = DblMul(base, DblLit(a[k][1], a[k][2])) ]_vars

\* C2: starting from no adjustment file the first recorded iteration is
\* Initial, and every later iteration is Improving, Regressing or Neutral
\* exactly as its win rate is above, below or equal to the win rate recorded
\* by the iteration before it (win rates 0.3, 0.5, 0.3 give Initial,
\* Improving, Regressing).
C2_Classification ==
    LET h == HistoryOf(tuning_file)
    IN  \A n \in 1..Len(h) :
           IF n = 1
           THEN h[n].iteration = 1 => h[n].outcome = "initial_tuning"
           ELSE h[n].outcome
                   = OutcomeAgainst(h[n - 1].metrics.win_rate, h[n].metrics.win_rate)

\* C3: an iteration is recorded as Initial if and only if no prior iteration
\* existed when save_tuning_config recorded it.
C3_InitialIffNoPrior ==
    [][ SaveStep =>
          LET h == HistoryOf(tuning_file')
          IN  (h[Len(h)].outcome = "initial_tuning")
                 <=> (HistoryOf(tuning_file) = <<>>) ]_vars

\* C4: the iteration numbers of the recorded entries are strictly
\* increasing, also once the history has been cut to its window.
C4_IterationIncreasing ==
    LET h == HistoryOf(tuning_file)
    IN  \A i, j \in 1..Len(h) : i < j => h[i].iteration < h[j].iteration

\* the three most recent entries adjust k and their outcomes alternate
\* between improving and regressing
Oscillating(h, k) ==
    /\ Len(h) >= 3
    /\ \A i \in (Len(h) - 2)..Len(h) :
          /\ k \in DOMAIN h[i].adjustments
          /\ h[i].outcome \in {"improving", "regressing"}
          /\ i > Len(h) - 2 => h[i].outcome # h[i - 1].outcome

\* C5: when the most recent classifications alternate between Improving and
\* Regressing for a key, the next tuning run writes no adjustment for that
\* key into the file.
C5_OscillationSuppressed ==
    [][ SaveStep =>
          \A k \in DOMAIN DefaultBaseline :
             Oscillating(HistoryOf(tuning_file), k)
                => k \notin DOMAIN tuning_file'.current_adjustments ]_vars
(***************************************************************************)
(* Player.damage on its own: a player of any difficulty, shielded or not,  *)
(* with or without a combat companion, under override sets that reach      *)
(* from the tuner's values to extreme ones, takes hits of every amount.    *)
(***************************************************************************)
MaxAmount == 50

\* the damage overrides the analyzers of game_tuner.py write
TunerDamageValues ==
    [ combat_damage_multiplier           |-> <<9, 10>>,
      difficulty_easy_damage_reduction   |-> <<8, 10>>,
      difficulty_normal_damage_reduction |-> <<9, 10>>,
      difficulty_hard_damage_reduction   |-> <<85, 100>> ]

\* every map of them one analysis can come to
TunerDamageOverrides ==
    {[k \in keys |-> TunerDamageValues[k]] : keys \in SUBSET DOMAIN TunerDamageValues}

DamageOverrides ==
    { EmptyDict,
      [combat_damage_multiplier |-> <<9, 10>>],
      [combat_damage_multiplier |-> <<9, 10>>,
       difficulty_easy_damage_reduction |-> <<8, 10>>,
       difficulty_normal_damage_reduction |-> <<9, 10>>,
       difficulty_hard_damage_reduction |-> <<85, 100>>],
      [combat_damage_multiplier |-> <<1, 100>>],
      [combat_damage_multiplier |-> <<13, 10>>,
       difficulty_hard_damage_reduction |-> <<12, 10>>] }

Daro == Companion("Daro", "combat", 6)

Bolt == Companion("Bolt", "supply", 5)

IdleTuner ==
    /\ tuning_file = NoFile
    /\ saves = 0
    /\ TUNING_LOADED = TRUE

DamageInit ==
    /\ IdleTuner
    /\ TUNING_CONFIG \in DamageOverrides
    /\ \E difficulty \in Difficulties, shielded \in {0, 2}, companion \in {NoCompanion, Daro} :
          player = [NewPlayer("DESERT", difficulty, TUNING_CONFIG)
                       EXCEPT !.status_effects["SHIELDED"] = shielded,
                              !.companion = companion]
    /\ call = NoCall
    /\ session = NoSession

DamageCall ==
    /\ call.op = "none"
    /\ \E amount \in 1..MaxAmount :
          /\ player' = damage(player, TUNING_CONFIG, amount)
          /\ call' = Called("damage", amount)
    /\ UNCHANGED <<tunerVars, TUNING_CONFIG, TUNING_LOADED, session>>

SpecDamage == DamageInit /\ [][DamageCall]_vars

\* the health the last call of damage took
DamageTaken == call.before.health - player.health

\* C6: for every difficulty, override set, shield and companion, damage(amount)
\* with amount > 0 lowers health by at least 1.
C6_DamageAtLeastOne ==
    (call.op = "damage" /\ call.arg > 0) => player.health <= call.before.health - 1

\* a hit mitigated to less than one point still costs one point of health
C6_Witness ==
    /\ call.op = "damage"
    /\ DblLess(DamageScaled(call.before, TUNING_CONFIG, call.arg), DblOne)
    /\ DamageTaken = 1

\* C7 as stated: the damage applied is the scaled amount rounded to the
\* nearest integer, and at least 1.
C7_DamageRounded ==
    call.op = "damage"
       => DamageTaken = Max2(1, DblRoundInt(DamageScaled(call.before, TUNING_CONFIG, call.arg)))

\* C7: the damage applied is the scaled amount truncated toward zero, and at
\* least 1: it is 1 when the scaled amount is below 1, and otherwise the one
\* integer k with k <= amount * mult < k + 1.
C7_DamageTruncated ==
    call.op = "damage"
       => LET x == DamageScaled(call.before, TUNING_CONFIG, call.arg)
          IN  IF DblLess(x, DblOne)
              THEN DamageTaken = 1
              ELSE /\ DblLeq(DblFromInt(DamageTaken), x)
                   /\ DblLess(x, DblFromInt(DamageTaken + 1))

\* a hit of at least 2 whose scaled amount would round up to the next integer
C7_Witness ==
    /\ call.op = "damage"
    /\ DamageTaken >= 2
    /\ DblRoundInt(DamageScaled(call.before, TUNING_CONFIG, call.arg)) = DamageTaken + 1

(***************************************************************************)
(* Player.consume_daily on its own: day after day on a fresh player.       *)
(***************************************************************************)
MaxConsumeCalls == 12

ConsumeOverrides ==
    { EmptyDict,
      [food_consumption_rate |-> <<85, 100>>, water_consumption_rate |-> <<85, 100>>],
      [food_consumption_rate |-> <<1, 2>>, water_consumption_rate |-> <<1, 2>>] }

ConsumeInit ==
    /\ IdleTuner
    /\ TUNING_CONFIG \in ConsumeOverrides
    /\ \E difficulty \in Difficulties, exhausted \in {0, 3}, companion \in {NoCompanion, Bolt} :
          player = [NewPlayer("TIME", difficulty, TUNING_CONFIG)
                       EXCEPT !.status_effects["EXHAUSTED"] = exhausted,
                              !.companion = companion]
    /\ call = NoCall
    /\ session = NoSession

ConsumeCall ==
    /\ call.n < MaxConsumeCalls
    /\ player' = consume_daily(player, TUNING_CONFIG)
    /\ call' = Called("consume_daily", 0)
    /\ UNCHANGED <<tunerVars, TUNING_CONFIG, TUNING_LOADED, session>>

SpecConsume == ConsumeInit /\ [][ConsumeCall]_vars

\* the effective daily rate r as the quotient of two ints: the difficulty's
\* daily_consume times the override of the pool's rate, if there is one
EffectiveRate(difficulty, config, rate_key) ==
    LET d == DIFFICULTY_SETTINGS[difficulty].daily_consume
        o == DictGet(config, rate_key, <<1, 1>>)
    IN  <<d[1] * o[1], d[2] * o[2]>>

\* floor(n * r)
FloorTimes(n, r) == (n * r[1]) \div r[2]

\* C8: with no Exhausted effect, no supply companion and pools that do not
\* reach zero, n consecutive consume_daily calls deduct floor(n * r) units of
\* food and of water in total (rate 0.5: two calls deduct 1 unit).
C8_DebtDeductsFloor ==
    ( /\ call.op = "consume_daily"
      /\ ~HasEffect(player, "EXHAUSTED")
      /\ player.companion.bonus_type # "supply"
      /\ player.supplies.food > 0
      /\ player.supplies.water > 0 )
       => /\ call.first.supplies.food - player.supplies.food
                = FloorTimes(call.n, EffectiveRate(player.difficulty, TUNING_CONFIG,
                                                   "food_consumption_rate"))
          /\ call.first.supplies.water - player.supplies.water
                = FloorTimes(call.n, EffectiveRate(player.difficulty, TUNING_CONFIG,
                                                   "water_consumption_rate"))
(***************************************************************************)
(* main.py: _run_game_loop.  The session waits at a prompt: "start" (theme *)
(* and difficulty), "daily" (daily_action), "event" (the prompts of the    *)
(* event trigger_random_event picks), "dice" (_mini_game_dice), "final"    *)
(* (final_encounter), "ended" (play again?), and has returned at "quit" or  *)
(* has left through sys.exit at "exited".                                  *)
(***************************************************************************)
MaxDays == 1

MaxDiceRounds == 2

MaxLooks == 1

SessionThemes == {"DESERT", "CYBER"}

\* game_tuning.json beside the game: none, or the file in the layout it reads
SessionFiles == {NoFile, FileOnDisk}

pc == session.pc

\* the loop after daily_action has returned with the player p
\* player.distance_travelled >= theme.total_distance
Arrived(q) == q.distance_travelled >= THEMES[q.theme].total_distance

\* a loop that tests the days and the arrival but not is_alive()
NextPcOfTheDead(q) ==
    IF session.day_count + 1 < session.max_days /\ ~Arrived(q)
    THEN "daily"
    ELSE IF is_alive(q) /\ Arrived(q) THEN "final" ELSE "ended"

\* where the loop goes with the player q the penalties leave: round again,
\* out of the loop into final_encounter, or out of it to the ending
NextPc(q) ==
    IF /\ session.day_count + 1 < session.max_days
       /\ is_alive(q)
       /\ ~Arrived(q)
    THEN "daily"
    ELSE IF is_alive(q) /\ Arrived(q) THEN "final" ELSE "ended"

\* an ending that tests death and arrival one after the other
EndingUnchained(q) ==
    (IF q.health <= 0 THEN <<LogRecord("death")>> ELSE <<>>)
       \o (IF Arrived(q) THEN <<LogRecord("victory")>> ELSE <<>>)
       \o (IF q.health > 0 /\ ~Arrived(q) THEN <<LogRecord("incomplete")>> ELSE <<>>)

\* what show_ending appends: log_death, or log_victory in one of the four
\* endings of an arrival, or "incomplete"
ShowEndingLogged(q) ==
    IF q.health <= 0 THEN <<LogRecord("death")>>
    ELSE IF Arrived(q) THEN <<LogRecord("victory")>>
    ELSE <<LogRecord("incomplete")>>

\* the end of _run_game_loop: the final snapshot, show_ending, the summary
GameOverLogged(q) ==
    <<LogRecord("player_final")>> \o ShowEndingLogged(q) \o <<LogRecord("session_end")>>

\* log_choice("daily_action", ...) of the daily_action that is completing
ChoiceLogged == IF pc = "daily" THEN <<LogRecord("choice")>> ELSE <<>>

\* the snapshot at the head of the loop every tenth day
SnapshotLogged(q) == IF q.days % 10 = 0 THEN <<LogRecord("player_day")>> ELSE <<>>

\* what the loop appends after apply_penalties, up to the next prompt
LoopLogged(q) ==
    (IF session.day_count + 1 >= session.max_days
     THEN <<LogRecord("max_days_reached")>> ELSE <<>>)
       \o (CASE NextPc(q) = "daily" -> SnapshotLogged(q)
              [] NextPc(q) = "final" -> <<>>
              [] OTHER               -> GameOverLogged(q))

\* the loop's tests with the player q the penalties leave
LoopOn(q, penalties_logged) ==
    /\ player' = q
    /\ session' = [session EXCEPT
                      !.day_count = @ + 1,
                      !.explored = @ + 1,
                      !.dice_rounds = 0,
                      !.looks = 0,
                      !.pc = NextPc(q),
                      !.log = @ \o ChoiceLogged \o penalties_logged \o LoopLogged(q)]
    /\ UNCHANGED <<tunerVars, TUNING_CONFIG, TUNING_LOADED, call>>

AfterDailyAction(p) == LoopOn(apply_penalties(p), PenaltiesLogged(p))

\* the day ends after travel, rest or scout and whatever event they met
FinishDay(outcomes) ==
    \E q \in outcomes, weather \in Weathers : AfterDailyAction(DayEnd(q, weather))

\* daily_action asks for the day's choice, within the days explored
AtDaily == pc = "daily" /\ session.explored < MaxDays

\* trigger_random_event is called: the session moves to the event's prompts
MeetEvent(p) ==
    /\ player' = p
    /\ session' = [session EXCEPT
                      !.pc = "event",
                      !.log = @ \o ChoiceLogged \o <<LogRecord("event_start")>>]
    /\ UNCHANGED <<tunerVars, TUNING_CONFIG, TUNING_LOADED, call>>

StartGame ==
    /\ pc = "start"
    /\ \E theme \in SessionThemes, difficulty \in Difficulties :
          LET config == IF TUNING_LOADED
                        THEN TUNING_CONFIG
                        ELSE LoadedConfig(tuning_file, TUNING_CONFIG)
          IN  /\ TUNING_CONFIG' = config
              /\ TUNING_LOADED' = TRUE
              /\ player' = NewPlayer(theme, difficulty, config)
    /\ session' = [session EXCEPT
                      !.pc = "daily", !.day_count = 0, !.dice_rounds = 0, !.looks = 0,
                      !.log = @ \o <<LogRecord("game_start"), LogRecord("player_initial"),
                                     LogRecord("player_day")>>]
    /\ UNCHANGED <<tunerVars, call>>

\* random.random() < event_chance, or not
TravelDraw(q, event_chance) ==
    \/ /\ DblLess(<<>>, event_chance)
       /\ MeetEvent(q)
    \/ /\ DblLess(event_chance, DblOne)
       /\ FinishDay({q})

Travel ==
    /\ AtDaily
    /\ \E roll \in RandInt(THEMES[player.theme].daily_distance[1],
                           THEMES[player.theme].daily_distance[2]) :
          TravelDraw(Travelled(player, TUNING_CONFIG, roll),
                     EventChance(player, TUNING_CONFIG))

Rest ==
    /\ AtDaily
    /\ \E roll \in RandInt(8, 18),
          cured \in IF HasEffect(player, "POISONED") THEN BOOLEAN ELSE {FALSE} :
          FinishDay({Rested(player, TUNING_CONFIG, roll, cured)})

\* the scout meets an event, finds nothing, or finds a shortcut
ScoutDraw(q) ==
    \/ MeetEvent(q)
    \/ FinishDay({q} \cup {AddDistance(q, shortcut_dist) : shortcut_dist \in RandInt(5, 15)})

Scout ==
    /\ AtDaily
    /\ ScoutDraw(Scouted(player, TUNING_CONFIG))

UseItem ==
    /\ AtDaily
    /\ \E q \in use_item(player) : AfterDailyAction(q)

Craft ==
    /\ AtDaily
    /\ \E q \in craft_menu(player) : AfterDailyAction(q)

\* choice 6: print_status, then daily_action asks again
CheckStatus ==
    /\ AtDaily
    /\ session.looks < MaxLooks
    /\ session' = [session EXCEPT !.looks = @ + 1, !.log = @ \o ChoiceLogged]
    /\ UNCHANGED <<tunerVars, TUNING_CONFIG, TUNING_LOADED, player, call>>

EventBandit == pc = "event" /\ FinishDay(event_bandit(player, TUNING_CONFIG))

EventRiver == pc = "event" /\ FinishDay(event_river(player, TUNING_CONFIG))

EventStorm == pc = "event" /\ FinishDay(event_storm(player, TUNING_CONFIG))

EventWildlife == pc = "event" /\ FinishDay(event_wildlife(player, TUNING_CONFIG))

EventTrader ==
    /\ pc = "event"
    /\ \/ FinishDay(event_trader(player, TUNING_CONFIG))
       \/ /\ session' = [session EXCEPT !.pc = "dice"]
          /\ UNCHANGED <<tunerVars, TUNING_CONFIG, TUNING_LOADED, player, call>>

\* _mini_game_dice: walk away or no stake; or a bet, and then another game
\* or the end of the event
MiniGameDice ==
    /\ pc = "dice"
    /\ \/ FinishDay({player})
       \/ /\ player.supplies.food >= 5
          /\ \E q \in DiceRoll(player) :
                \/ FinishDay({q})
                \/ /\ q.supplies.food >= 5
                   /\ session.dice_rounds < MaxDiceRounds
                   /\ player' = q
                   /\ session' = [session EXCEPT !.dice_rounds = @ + 1]
                   /\ UNCHANGED <<tunerVars, TUNING_CONFIG, TUNING_LOADED, call>>

EventDiscovery == pc = "event" /\ FinishDay(event_discovery(player, TUNING_CONFIG))

EventMorale == pc = "event" /\ FinishDay(event_morale(player, TUNING_CONFIG))

EventSpecialItem == pc = "event" /\ FinishDay(event_special_item(player, TUNING_CONFIG))

EventRiddle == pc = "event" /\ FinishDay(event_riddle(player, TUNING_CONFIG))

EventCompanion == pc = "event" /\ FinishDay(event_companion(player, TUNING_CONFIG))

EventAmbushElite == pc = "event" /\ FinishDay(event_ambush_elite(player, TUNING_CONFIG))

EventWeatherShift == pc = "event" /\ FinishDay(event_weather_shift(player, TUNING_CONFIG))

EventGeneratedScenario ==
    pc = "event" /\ FinishDay(event_generated_scenario(player, TUNING_CONFIG))

FinalEncounter ==
    /\ pc = "final"
    /\ \E q \in final_encounter(player, TUNING_CONFIG) :
          /\ player' = q
          /\ session' = [session EXCEPT !.pc = "ended", !.log = @ \o GameOverLogged(q)]
    /\ UNCHANGED <<tunerVars, TUNING_CONFIG, TUNING_LOADED, call>>

\* replay with the same seed, or a new adventure: _run_game_loop again,
\* and init_logger starts the log of a new session
PlayAgain ==
    /\ pc = "ended"
    /\ session' = [session EXCEPT !.pc = "start", !.log = <<LogRecord("session_start")>>]
    /\ player' = NoPlayer
    /\ UNCHANGED <<tunerVars, TUNING_CONFIG, TUNING_LOADED, call>>

Quit ==
    /\ pc = "ended"
    /\ session' = [session EXCEPT !.pc = "quit"]
    /\ player' = NoPlayer
    /\ UNCHANGED <<tunerVars, TUNING_CONFIG, TUNING_LOADED, call>>

\* the prompts of get_choice
Prompts == {"start", "daily", "event", "dice", "final", "ended"}

\* end of input or an interrupt at a prompt: get_choice says goodbye and
\* calls sys.exit(0); the process is gone and the log stays as it was
EndOfInput ==
    /\ pc \in Prompts
    /\ session' = [session EXCEPT !.pc = "exited"]
    /\ player' = NoPlayer
    /\ UNCHANGED <<tunerVars, TUNING_CONFIG, TUNING_LOADED, call>>

\* --max-days: one day, or the default
SessionMaxDays == {1, 200}

\* Sessions under way, recorded at the prompt of daily_action from runs of
\* _run_game_loop without a game_tuning.json: random.seed(seed) before the
\* loop, theme and difficulty as noted, and the daily choices (travel, with
\* some scouting and rest) and event choices drawn by the player.
Recorded ==
    {
      \* seed 3, DESERT, hard, day 37: debts 0.1000000000000032, 0.1000000000000032
      [ day_count |-> 37,
        player |->
            [NewPlayer("DESERT", "hard", EmptyDict)
                EXCEPT !.health = 2,
                       !.morale = 54,
                       !.supplies = [food |-> 1, water |-> 6, fuel |-> 0],
                       !.inventory = {"Quicksilver Flask"},
                       !.distance_travelled = 913,
                       !.days = 37,
                       !.time_of_day = "DAY",
                       !.weather = "CLEAR",
                       !.scout_count = 3,
                       !.combats_survived = 2,
                       !.milestones_hit = {25},
                       !.food_debt = <<0, 2048, 2458, 2457, 2457, 409>>,
                       !.water_debt = <<0, 2048, 2458, 2457, 2457, 409>>] ],
      \* seed 4, CYBER, normal, day 43: debts 0.0, 0.0
      [ day_count |-> 43,
        player |->
            [NewPlayer("CYBER", "normal", EmptyDict)
                EXCEPT !.health = 5,
                       !.morale = 63,
                       !.supplies = [food |-> 1, water |-> 0, fuel |-> 36],
                       !.inventory = {},
                       !.distance_travelled = 1305,
                       !.days = 43,
                       !.companion = Companion("Nyx", "combat", 8),
                       !.time_of_day = "NIGHT",
                       !.weather = "CLEAR",
                       !.scout_count = 9,
                       !.combats_survived = 1,
                       !.milestones_hit = {25, 50},
                       !.food_debt = <<>>,
                       !.water_debt = <<>>] ],
      \* seed 3, DESERT, easy, day 82: debts 0.39999999999999636, 0.39999999999999636
      [ day_count |-> 82,
        player |->
            [NewPlayer("DESERT", "easy", EmptyDict)
                EXCEPT !.health = 22,
                       !.morale = 45,
                       !.supplies = [food |-> 44, water |-> 56, fuel |-> 0],
                       !.inventory = {"Quicksilver Flask"},
                       !.distance_travelled = 1994,
                       !.days = 82,
                       !.time_of_day = "DUSK",
                       !.weather = "FOG",
                       !.scout_count = 13,
                       !.combats_survived = 2,
                       !.milestones_hit = {25, 50, 75},
                       !.food_debt = <<0, 1536, 1637, 1638, 1638, 1638>>,
                       !.water_debt = <<0, 1536, 1637, 1638, 1638, 1638>>] ],
      \* seed 9, DESERT, easy, day 84: debts 0.19999999999999618, 0.19999999999999618
      [ day_count |-> 84,
        player |->
            [NewPlayer("DESERT", "easy", EmptyDict)
                EXCEPT !.health = 98,
                       !.morale = 48,
                       !.supplies = [food |-> 5, water |-> 41, fuel |-> 0],
                       !.inventory = {"Signal-Flare"},
                       !.distance_travelled = 1992,
                       !.days = 84,
                       !.companion = Companion("Mirra", "health", 5),
                       !.time_of_day = "DAWN",
                       !.weather = "FOG",
                       !.scout_count = 9,
                       !.combats_survived = 3,
                       !.milestones_hit = {25, 50, 75},
                       !.food_debt = <<0, 512, 818, 819, 819, 819>>,
                       !.water_debt = <<0, 512, 818, 819, 819, 819>>] ],
      \* seed 6, DESERT, hard, day 17: debts 0.40000000000000147, 0.40000000000000147
      [ day_count |-> 17,
        player |->
            [NewPlayer("DESERT", "hard", EmptyDict)
                EXCEPT !.health = 11,
                       !.morale = 54,
                       !.supplies = [food |-> 7, water |-> 17, fuel |-> 4],
                       !.inventory = {"Signal-Flare", "Solar-Charger"},
                       !.distance_travelled = 301,
                       !.days = 17,
                       !.time_of_day = "DAY",
                       !.weather = "FOG",
                       !.scout_count = 3,
                       !.combats_survived = 2,
                       !.milestones_hit = {},
                       !.food_debt = <<0, 3328, 1638, 1638, 1638, 1638>>,
                       !.water_debt = <<0, 3328, 1638, 1638, 1638, 1638>>] ],
      \* seed 1, CYBER, normal, day 14: debts 0.0, 0.0
      [ day_count |-> 14,
        player |->
            [NewPlayer("CYBER", "normal", EmptyDict)
                EXCEPT !.health = 80,
                       !.morale = 75,
                       !.supplies = [food |-> 31, water |-> 29, fuel |-> 49],
                       !.inventory = {},
                       !.distance_travelled = 421,
                       !.days = 14,
                       !.status_effects["POISONED"] = 2,
                       !.time_of_day = "DUSK",
                       !.weather = "CLEAR",
                       !.scout_count = 0,
                       !.combats_survived = 0,
                       !.milestones_hit = {},
                       !.food_debt = <<>>,
                       !.water_debt = <<>>] ],
      \* seed 6, DESERT, easy, day 23: debts 0.09999999999999898, 0.09999999999999898
      [ day_count |-> 23,
        player |->
            [NewPlayer("DESERT", "easy", EmptyDict)
                EXCEPT !.health = 100,
                       !.morale = 66,
                       !.supplies = [food |-> 60, water |-> 78, fuel |-> 37],
                       !.inventory = {"Ember Stone"},
                       !.distance_travelled = 515,
                       !.days = 23,
                       !.time_of_day = "NIGHT",
                       !.weather = "CLEAR",
                       !.scout_count = 2,
                       !.combats_survived = 0,
                       !.milestones_hit = {25},
                       !.food_debt = <<0, 1280, 2457, 2457, 2457, 409>>,
                       !.water_debt = <<0, 1280, 2457, 2457, 2457, 409>>] ] }

\* --max-days as argparse takes it: any int, zero among them
CommandLineMaxDays == {0} \cup SessionMaxDays

\* a process that is about to ask for theme and difficulty
FreshSession ==
    /\ tuning_file \in SessionFiles
    /\ TUNING_CONFIG = EmptyDict
    /\ TUNING_LOADED = FALSE
    /\ player = NoPlayer
    /\ \E max_days \in CommandLineMaxDays :
          session = [pc |-> "start", day_count |-> 0, max_days |-> max_days,
                     dice_rounds |-> 0, explored |-> 0, looks |-> 0,
                     log |-> <<LogRecord("session_start")>>]

\* a recorded session, on its last day or with days to go; its log holds the
\* records appended from here on (those before are the session's start,
\* snapshots, choices, events and penalties, and no ending)
RecordedSession ==
    /\ tuning_file = NoFile
    /\ TUNING_CONFIG = EmptyDict
    /\ TUNING_LOADED = TRUE
    /\ \E r \in Recorded, max_days \in SessionMaxDays :
          /\ player = r.player
          /\ session = [pc |-> "daily", day_count |-> r.day_count,
                        max_days |-> r.day_count + max_days,
                        dice_rounds |-> 0, explored |-> 0, looks |-> 0, log |-> <<>>]

Init ==
    /\ saves = 0
    /\ call = NoCall
    /\ (FreshSession \/ RecordedSession)

Next ==
    \/ StartGame
    \/ Travel
    \/ Rest
    \/ Scout
    \/ UseItem
    \/ Craft
    \/ CheckStatus
    \/ EventBandit
    \/ EventRiver
    \/ EventStorm
    \/ EventWildlife
    \/ EventTrader
    \/ MiniGameDice
    \/ EventDiscovery
    \/ EventMorale
    \/ EventSpecialItem
    \/ EventRiddle
    \/ EventCompanion
    \/ EventAmbushElite
    \/ EventWeatherShift
    \/ EventGeneratedScenario
    \/ FinalEncounter
    \/ PlayAgain
    \/ Quit
    \/ EndOfInput

Spec == Init /\ [][Next]_vars

(***************************************************************************)
(* The player's ranges over the session.                                   *)
(***************************************************************************)
\* C9: in every reachable state of a session the player's health is within
\* [0, 100].
C9_HealthInRange ==
    player # NoPlayer => (player.health >= 0 /\ player.health <= 100)

\* C10: in every reachable state of a session the player's morale is within
\* [0, 100].
C10_MoraleInRange ==
    player # NoPlayer => (player.morale >= 0 /\ player.morale <= 100)

\* C11: in every reachable state of a session each supply pool (food, water,
\* fuel) is an integer >= 0.
C11_SuppliesNonNegative ==
    player # NoPlayer => \A key \in {"food", "water", "fuel"} : player.supplies[key] \in Nat

\* a day in which the last of the food was taken and the pool stopped at 0
C11_Witness ==
    /\ player # NoPlayer
    /\ session.explored >= 1
    /\ player.supplies.food = 0

\* C12: in every reachable state of a session distance_travelled is >= 0,
\* also when an event fires before any distance has been covered.
C12_DistanceNonNegative ==
    player # NoPlayer => player.distance_travelled >= 0

(***************************************************************************)
(* Player.adjust_supply on its own: a new player of any theme and          *)
(* difficulty, whose pools hold their starting amounts, has a pool         *)
(* adjusted twice or more by small and by very large amounts.              *)
(***************************************************************************)
MaxAdjustCalls == 2

BigDelta == 1000

AdjustDeltas == {-BigDelta, -5, 0, 5, BigDelta}

AdjustInit ==
    /\ IdleTuner
    /\ TUNING_CONFIG = EmptyDict
    /\ \E theme \in {"DESERT", "MIST", "CYBER"}, difficulty \in Difficulties :
          player = NewPlayer(theme, difficulty, TUNING_CONFIG)
    /\ call = NoCall
    /\ session = NoSession

\* the key and delta of the call, and those of the call before it
AdjustArg(key, delta) ==
    [ key   |-> key,
      delta |-> delta,
      prev  |-> IF call.op = "adjust_supply"
                THEN [key |-> call.arg.key, delta |-> call.arg.delta]
                ELSE [key |-> None, delta |-> 0] ]

AdjustCall ==
    /\ call.n < MaxAdjustCalls
    /\ \E key \in {"food", "water", "fuel"}, delta \in AdjustDeltas :
          /\ player' = adjust_supply(player, key, delta)
          /\ call' = Called("adjust_supply", AdjustArg(key, delta))
    /\ UNCHANGED <<tunerVars, TUNING_CONFIG, TUNING_LOADED, session>>

SpecAdjust == AdjustInit /\ [][AdjustCall]_vars

\* the pool the last call of adjust_supply adjusted, after and before it
PoolAfter == player.supplies[call.arg.key]

PoolBefore == call.before.supplies[call.arg.key]

\* adjust(r, 0) right after an adjust of the same pool by a very large amount
AfterBigThenZero ==
    /\ call.arg.delta = 0
    /\ call.arg.prev.key = call.arg.key
    /\ call.arg.prev.delta = BigDelta

\* C13 as stated: after adjust_supply(r, d) the pool is min(cap(r), max(0,
\* old + d)) with cap(r) the theme- and difficulty-scaled starting amount of
\* the pool, and a very large adjust followed by adjust(r, 0) leaves the pool
\* at that cap.
C13_ClampedToStartingAmount ==
    call.op = "adjust_supply"
       => /\ PoolAfter = Min2(call.first.supplies[call.arg.key], Max2(0, PoolBefore + call.arg.delta))
          /\ AfterBigThenZero => PoolAfter = call.first.supplies[call.arg.key]

\* C13: after adjust_supply(r, d) the pool is min(999, max(0, old + d)), the
\* same bound for every pool, theme and difficulty, and a very large adjust
\* followed by adjust(r, 0) leaves the pool at 999, never above it and never
\* negative.
C13_ClampedTo999 ==
    call.op = "adjust_supply"
       => /\ PoolAfter = Min2(999, Max2(0, PoolBefore + call.arg.delta))
          /\ AfterBigThenZero => PoolAfter = 999

\* a very large adjust and then adjust(r, 0): the pool stands at 999, above
\* the amount the player started with
C13_Witness ==
    /\ call.op = "adjust_supply"
    /\ AfterBigThenZero
    /\ PoolAfter = 999
    /\ PoolAfter > call.first.supplies[call.arg.key]

(***************************************************************************)
(* Player.add_effect and Player.tick_effects on their own: effects are     *)
(* applied to a new player for the durations the game uses, re-applied     *)
(* while active, and ticked.  call.applied holds the duration each effect  *)
(* was last applied with, call.ticks the ticks since then.                 *)
(***************************************************************************)
MaxDuration == 3

MaxEffectCalls == 4

NoEffectCall ==
    [ op |-> "none", n |-> 0, arg |-> 0, before |-> NoPlayer, first |-> NoPlayer,
      applied |-> NoEffects, ticks |-> NoEffects ]

EffectsInit ==
    /\ IdleTuner
    /\ TUNING_CONFIG = EmptyDict
    /\ \E difficulty \in Difficulties : player = NewPlayer("MIST", difficulty, TUNING_CONFIG)
    /\ call = NoEffectCall
    /\ session = NoSession

AddEffectCall ==
    /\ call.n < MaxEffectCalls
    /\ \E effect \in StatusEffects, duration \in 1..MaxDuration :
          /\ player' = add_effect(player, effect, duration)
          /\ call' = [call EXCEPT !.op = "add_effect",
                                  !.n = @ + 1,
                                  !.arg = [effect |-> effect, duration |-> duration],
                                  !.before = player,
                                  !.applied[effect] = duration,
                                  !.ticks[effect] = 0]
    /\ UNCHANGED <<tunerVars, TUNING_CONFIG, TUNING_LOADED, session>>

TickEffectsCall ==
    /\ call.n < MaxEffectCalls
    /\ player' = tick_effects(player)
    /\ call' = [call EXCEPT !.op = "tick_effects",
                            !.n = @ + 1,
                            !.arg = 0,
                            !.before = player,
                            !.ticks = [e \in StatusEffects |-> @[e] + 1]]
    /\ UNCHANGED <<tunerVars, TUNING_CONFIG, TUNING_LOADED, session>>

EffectsNext == AddEffectCall \/ TickEffectsCall

SpecEffects == EffectsInit /\ [][EffectsNext]_vars

\* C14: an effect applied with duration d >= 1 and not applied again is
\* present with d - k days remaining after k < d calls of tick_effects, and
\* absent once tick_effects has been called d times.
C14_EffectExpiry ==
    \A e \in StatusEffects :
       call.applied[e] >= 1
          => IF call.ticks[e] < call.applied[e]
             THEN /\ HasEffect(player, e)
                  /\ player.status_effects[e] = call.applied[e] - call.ticks[e]
             ELSE ~HasEffect(player, e)

\* an effect applied for two days or more has just run out with its last tick
C14_Witness ==
    \E e \in StatusEffects :
       /\ call.op = "tick_effects"
       /\ call.applied[e] >= 2
       /\ call.ticks[e] = call.applied[e]
       /\ HasEffect(call.before, e)
       /\ ~HasEffect(player, e)

\* C15: after add_effect(E, d) the player holds E with d days remaining,
\* whatever remained of it before, and every other effect is as it was.
C15_EffectOverwritten ==
    call.op = "add_effect"
       => /\ player.status_effects[call.arg.effect] = call.arg.duration
          /\ \A e \in StatusEffects \ {call.arg.effect} :
                player.status_effects[e] = call.before.status_effects[e]

\* an effect is applied again while it is active with another duration
\* remaining, beside another active effect
C15_Witness ==
    /\ call.op = "add_effect"
    /\ HasEffect(call.before, call.arg.effect)
    /\ call.before.status_effects[call.arg.effect] # call.arg.duration
    /\ \E e \in StatusEffects \ {call.arg.effect} : HasEffect(player, e)

(***************************************************************************)
(* apply_penalties on its own: players with and without food and water,    *)
(* with morale on both sides of 10, exhausted or not, at several levels of *)
(* health; call.arg is the length of the session log before the call.      *)
(***************************************************************************)
MaxPenaltyCalls == 2

PenaltiesInit ==
    /\ IdleTuner
    /\ TUNING_CONFIG = EmptyDict
    /\ \E food \in {0, 3}, water \in {0, 4}, morale \in {0, 10, 11, 60},
          exhausted \in {0, 2}, health \in {100, 40, 20, 5} :
          player = [NewPlayer("DESERT", "normal", TUNING_CONFIG)
                       EXCEPT !.supplies.food = food,
                              !.supplies.water = water,
                              !.morale = morale,
                              !.status_effects["EXHAUSTED"] = exhausted,
                              !.health = health]
    /\ call = NoCall
    /\ session = NoSession

PenaltiesCall ==
    /\ call.n < MaxPenaltyCalls
    /\ player' = apply_penalties(player)
    /\ session' = [session EXCEPT !.log = @ \o PenaltiesLogged(player)]
    /\ call' = Called("apply_penalties", Len(session.log))
    /\ UNCHANGED <<tunerVars, TUNING_CONFIG, TUNING_LOADED>>

SpecPenalties == PenaltiesInit /\ [][PenaltiesCall]_vars

\* the health the last call of apply_penalties took
PenaltyTaken == call.before.health - player.health

\* the penalties that were due at the last call of apply_penalties
PenaltiesDue == PenaltyNames(call.before)

\* the records the last call of apply_penalties appended to the log
PenaltyRecords == SubSeq(session.log, call.arg + 1, Len(session.log))

\* C18: one call of apply_penalties lowers health by exactly 8*[food <= 0]
\* + 12*[water <= 0] + 3*[morale <= 10] + 2*[Exhausted active]; without food
\* and water, with morale above 10 and no exhaustion, by exactly 20.
C18_PenaltySum ==
    call.op = "apply_penalties"
       => /\ PenaltyTaken
                = (IF call.before.supplies.food <= 0 THEN 8 ELSE 0)
                     + (IF call.before.supplies.water <= 0 THEN 12 ELSE 0)
                     + (IF call.before.morale <= 10 THEN 3 ELSE 0)
                     + (IF HasEffect(call.before, "EXHAUSTED") THEN 2 ELSE 0)
          /\ PenaltiesDue = <<"starvation", "dehydration">> => PenaltyTaken = 20

\* starvation and dehydration in the same call, and nothing else
C18_Witness ==
    /\ call.op = "apply_penalties"
    /\ PenaltiesDue = <<"starvation", "dehydration">>
    /\ PenaltyTaken = 20

\* C19 as stated: when k penalties apply in one call of apply_penalties the
\* session log gains k penalty records, one per penalty.
C19_RecordPerPenalty ==
    call.op = "apply_penalties"
       => /\ Len(PenaltyRecords) = Len(PenaltiesDue)
          /\ \A i \in 1..Len(PenaltyRecords) : PenaltyRecords[i].type = "penalties_applied"

\* C19: when k >= 1 penalties apply in one call of apply_penalties the
\* session log gains exactly one record, of type penalties_applied, that
\* lists the k penalties by name and holds the health they leave; when none
\* applies the log gains nothing.
C19_OneRecordListsPenalties ==
    call.op = "apply_penalties"
       => IF PenaltiesDue = <<>>
          THEN PenaltyRecords = <<>>
          ELSE /\ Len(PenaltyRecords) = 1
               /\ PenaltyRecords[1].type = "penalties_applied"
               /\ PenaltyRecords[1].penalties = PenaltiesDue
               /\ PenaltyRecords[1].health = player.health

\* three penalties in one call, and one record for the three
C19_Witness ==
    /\ call.op = "apply_penalties"
    /\ Len(PenaltiesDue) = 3
    /\ Len(PenaltyRecords) = 1
    /\ Len(PenaltyRecords[1].penalties) = 3

(***************************************************************************)
(* The day and the menus of daily_action, over the session.                *)
(***************************************************************************)
\* a daily_action that is asked for an item, a craft or the status
MenuStep == UseItem \/ Craft \/ CheckStatus

\* from player p to player q no day has passed: the day counter, the time of
\* day and the weather are the same, and consume_daily has not run (the debts
\* are the same and no food or water has gone)
SameDay(p, q) ==
    /\ q.days = p.days
    /\ q.time_of_day = p.time_of_day
    /\ q.weather = p.weather
    /\ q.food_debt = p.food_debt
    /\ q.water_debt = p.water_debt
    /\ q.supplies.food >= p.supplies.food
    /\ q.supplies.water >= p.supplies.water

\* C16 as stated: a UseItem, Craft or status action leaves the day counter,
\* the time of day, the weather and the remaining durations of all status
\* effects unchanged, and consumes no daily supplies.
C16_MenusKeepDayAndEffects ==
    [][ MenuStep => /\ SameDay(player, player')
                    /\ player'.status_effects = player.status_effects ]_vars

\* C16: a UseItem, Craft or status action leaves the day counter, the time
\* of day and the weather unchanged, consumes no daily supplies and ticks no
\* status effect: every remaining duration is unchanged, except that using
\* the Ember Stone sets Shielded to 2 days.
C16_MenusKeepDay ==
    [][ MenuStep =>
          /\ SameDay(player, player')
          /\ \A e \in StatusEffects :
                \/ player'.status_effects[e] = player.status_effects[e]
                \/ /\ e = "SHIELDED"
                   /\ has(player, "Ember Stone")
                   /\ ~has(player', "Ember Stone")
                   /\ player'.status_effects[e] = 2 ]_vars

\* the loop has gone round once more than days have passed: an item was
\* used, and it was the Ember Stone
C16_Witness ==
    /\ player # NoPlayer
    /\ session.explored = 1
    /\ player.days = 23
    /\ ~has(player, "Ember Stone")
    /\ player.status_effects["SHIELDED"] = 2
    /\ player.time_of_day = "NIGHT"

\* C17: penalty health is lost only in a step that advances the day: a
\* UseItem or Craft action, cancelled or not, leaves the player as the menu
\* left them.
C17_MenusCostNoPenalty ==
    [][ (UseItem \/ Craft) => player' \in (use_item(player) \cup craft_menu(player)) ]_vars

(***************************************************************************)
(* The session log.                                                        *)
(***************************************************************************)
\* how many records of a type the session has appended
LogCount(type) == Cardinality({i \in DOMAIN session.log : session.log[i].type = type})

\* C20: among the records a session appends there is at most one death
\* record and at most one victory record and never both, and a session_end
\* record, if there is one, is the last record.
C20_OneEndingThenSessionEnd ==
    /\ LogCount("death") <= 1
    /\ LogCount("victory") <= 1
    /\ LogCount("death") + LogCount("victory") <= 1
    /\ \A i \in DOMAIN session.log :
          session.log[i].type = "session_end" => i = Len(session.log)

\* the player arrived and died in the final encounter: the log holds the
\* death record, no victory record, and ends with session_end
C20_Witness ==
    /\ pc = "ended"
    /\ Arrived(player)
    /\ player.health <= 0
    /\ LogCount("death") = 1
    /\ LogCount("victory") = 0
    /\ session.log[Len(session.log)].type = "session_end"

(***************************************************************************)
(* Sessions on their last day, with a player who keeps answering until the *)
(* input ends.                                                             *)
(***************************************************************************)
\* --max-days lets the loop go round once more
AbandonInit == Init /\ session.max_days = session.day_count + 1

\* WF_vars(Next) with its parts written out: the input can end at every
\* prompt, so a step is possible exactly at the prompts, and every step that
\* changes the state is a step of Next
Answered == []<>(pc \notin Prompts) \/ []<><<TRUE>>_vars

\* a prompt is answered, or the input ends there
SpecAbandon == AbandonInit /\ [][Next]_vars /\ Answered

\* the log ends with a terminal record and session_end
LogClosed ==
    /\ Len(session.log) >= 2
    /\ session.log[Len(session.log)].type = "session_end"
    /\ session.log[Len(session.log) - 1].type \in {"death", "victory", "incomplete"}

\* C21: every session that has been started eventually closes its log with a
\* terminal record (death, victory or incomplete) followed by session_end,
\* also when it is abandoned by end of input or an interrupt at a prompt.
C21_LogEventuallyClosed ==
    (pc \in Prompts /\ session.explored < MaxDays) ~> LogClosed

\* C21, at the end of the process: a session whose process has exited has
\* closed its log with a terminal record followed by session_end
C21_ExitedWithLogClosed == pc = "exited" => LogClosed

(***************************************************************************)
(* main.py: GameLogger on its own.  session.log_dir is the state of the    *)
(* "logs" directory (it exists, it can be made, or it cannot: a file of    *)
(* that name, or no permission), session.log_file whether the session's    *)
(* file can be opened and appended to, session.events the length of the    *)
(* logger's list in memory, session.log the records in the file.           *)
(***************************************************************************)
MaxLogEvents == 5

LogDirStates == {"present", "creatable", "blocked"}

LogFileStates == {"writable", "unwritable"}

LogTypes == {"choice", "event_start", "penalties_applied"}

\* GameLogger.log_event with logging enabled: the event is kept in memory
\* and appended to the file; an exception of open or write is passed over
log_event(s, type) ==
    [s EXCEPT !.events = @ + 1,
              !.log = IF s.log_file = "writable" THEN Append(@, LogRecord(type)) ELSE @]

\* GameLogger.__init__: log_dir.mkdir(exist_ok=True) raises when the
\* directory cannot be made, and the exception leaves _run_game_loop;
\* otherwise session_start is the first event
GameLoggerInit(s) ==
    IF s.log_dir = "blocked"
    THEN [s EXCEPT !.pc = "crashed"]
    ELSE log_event([s EXCEPT !.pc = "start", !.log_dir = "present"], "session_start")

\* a process at the head of _run_game_loop
LoggingInit ==
    /\ tuning_file = NoFile
    /\ saves = 0
    /\ TUNING_CONFIG = EmptyDict
    /\ TUNING_LOADED = FALSE
    /\ player = NoPlayer
    /\ call = NoCall
    /\ \E log_dir \in LogDirStates, log_file \in LogFileStates :
          session = [pc |-> "boot", log_dir |-> log_dir, log_file |-> log_file,
                     events |-> 0, log |-> <<>>]

\* init_logger()
InitLoggerCall ==
    /\ pc = "boot"
    /\ session' = GameLoggerInit(session)
    /\ UNCHANGED <<tunerVars, TUNING_CONFIG, TUNING_LOADED, player, call>>

\* the session logs an event
LogEventCall ==
    /\ pc = "start"
    /\ session.events < MaxLogEvents
    /\ \E type \in LogTypes : session' = log_event(session, type)
    /\ UNCHANGED <<tunerVars, TUNING_CONFIG, TUNING_LOADED, player, call>>

\* the disk fills up, or the file is taken away
LogFileFails ==
    /\ pc = "start"
    /\ session.log_file = "writable"
    /\ session' = [session EXCEPT !.log_file = "unwritable"]
    /\ UNCHANGED <<tunerVars, TUNING_CONFIG, TUNING_LOADED, player, call>>

LoggingNext == InitLoggerCall \/ LogEventCall \/ LogFileFails

SpecLogging == LoggingInit /\ [][LoggingNext]_vars

\* C22: a failure of the logging layer (the directory cannot be created, the
\* file cannot be opened or written) never terminates or prevents a session
\* and never changes player state.
C22_LoggingNeverStopsSession ==
    [][ session'.pc # "crashed" /\ player' = player ]_vars

(***************************************************************************)
(* main.py: a game process loads game_tuning.json, whatever is on disk,    *)
(* and asks for tuned values.                                              *)
(***************************************************************************)
LoadFiles ==
    {NoFile, Unparseable, FileOnDisk} \cup {[adjustments |-> d] : d \in DamageOverrides}

TunedNames ==
    {"combat_damage_multiplier", "difficulty_hard_damage_reduction",
     "food_consumption_rate", "global_easy_boost"}

TunedBases == {DblOne, DblFromInt(2), DblLit(3, 10)}

LoadInit ==
    /\ tuning_file \in LoadFiles
    /\ saves = 0
    /\ TUNING_CONFIG = EmptyDict
    /\ TUNING_LOADED = FALSE
    /\ player = NoPlayer
    /\ call = NoCall
    /\ session = NoSession

\* get_tuned_value(param_name, default) is called
GetTunedValueCall ==
    /\ \E param_name \in TunedNames, default \in TunedBases :
          call' = [ op     |-> "get_tuned_value",
                    arg    |-> <<param_name, default>>,
                    loaded |-> TUNING_LOADED,
                    result |-> get_tuned_value(TUNING_CONFIG, param_name, default) ]
    /\ UNCHANGED <<tunerVars, TUNING_CONFIG, TUNING_LOADED, player, session>>

LoadNext == load_tuning_config \/ GameProcessStart \/ GetTunedValueCall

SpecLoad == LoadInit /\ [][LoadNext]_vars

\* C23: when game_tuning.json is missing or cannot be parsed, loading it
\* does not fail and leaves the override map empty, and every
\* get_tuned_value(name, base) returns base.
C23_MissingOrMalformedFallsBack ==
    (~FileExists(tuning_file) \/ ~Parseable(tuning_file))
       => /\ TUNING_CONFIG = EmptyDict
          /\ call.op = "get_tuned_value" => call.result = call.arg[2]

\* an unparseable file has been loaded and a value was asked for with
\* the base 2.0
C23_Witness ==
    /\ tuning_file = Unparseable
    /\ TUNING_LOADED
    /\ call.op = "get_tuned_value"
    /\ call.loaded
    /\ call.arg[2] = DblFromInt(2)
    /\ call.result = DblFromInt(2)

(***************************************************************************)
(* game_tuner.py: main.  A run of the tuner over the log directory, with   *)
(* --min-sessions and with or without --apply.                             *)
(***************************************************************************)
MaxRuns == 2

MinSessions == {5, 10}

\* directory contents: how many sessions of each kind
AnalysisDirs ==
    { [won |-> w, starved |-> s, strolled |-> e, ambushed |-> h] :
         w \in {0, 3}, s \in {0, 2, 7}, e \in {0, 1, 5}, h \in {0, 6} }

AnalysisInit ==
    /\ tuning_file \in {NoFile, Unparseable, FileOnDisk}
    /\ saves = 0
    /\ TUNING_CONFIG = EmptyDict
    /\ TUNING_LOADED = FALSE
    /\ player = NoPlayer
    /\ call = NoCall
    /\ session = NoSession

\* the file after main: save_tuning_config runs under --apply when
\* run_analysis left adjustments
TunedFile(file, result, sessions, apply) ==
    IF apply /\ Truthy(result.adjustments)
    THEN WrittenConfig(ExistingConfig(file), result.adjustments, result.insights, sessions)
    ELSE file

TunerRun ==
    /\ saves < MaxRuns
    /\ \E sessions \in AnalysisDirs, min_sessions \in MinSessions, apply \in BOOLEAN :
          /\ tuning_file' = TunedFile(tuning_file, run_analysis(sessions, min_sessions),
                                      sessions, apply)
          /\ call' = [ op     |-> "tuner",
                       arg    |-> [sessions |-> sessions, min_sessions |-> min_sessions,
                                   apply |-> apply],
                       result |-> run_analysis(sessions, min_sessions),
                       before |-> tuning_file ]
    /\ saves' = saves + 1
    /\ UNCHANGED <<TUNING_CONFIG, TUNING_LOADED, player, session>>

SpecAnalysis == AnalysisInit /\ [][TunerRun]_vars

\* C24: with fewer than min_sessions sessions a tuning run produces no
\* adjustments and no insights and leaves the adjustment file exactly as it
\* was, also under --apply.
C24_TooFewSessionsNoOp ==
    (call.op = "tuner" /\ SessionCount(call.arg.sessions) < call.arg.min_sessions)
       => /\ call.result.adjustments = EmptyDict
          /\ call.result.insights = 0
          /\ tuning_file = call.before

\* a run with --apply over one session, beside a file on disk
C24_Witness ==
    /\ call.op = "tuner"
    /\ call.arg.apply
    /\ SessionCount(call.arg.sessions) = 1
    /\ FileExists(call.before)
    /\ tuning_file = call.before

\* a multiplier within 0.7 .. 1.3
Bounded(value) == ~RatLess(value, <<7, 10>>) /\ ~RatLess(<<13, 10>>, value)

\* C25: every adjustment the analyzer emits is a positive multiplier within
\* 0.7 .. 1.3.
C25_AdjustmentsBounded ==
    call.op = "tuner"
       => \A key \in DOMAIN call.result.adjustments :
             /\ call.result.adjustments[key][1] > 0
             /\ Bounded(call.result.adjustments[key])

(***************************************************************************)
(* main.py: Player.__post_init__ beside the adjustment files a tuner or a  *)
(* hand may leave.                                                         *)
(***************************************************************************)
SupplyOverrides ==
    { EmptyDict,
      [global_easy_boost |-> <<12, 10>>],
      [difficulty_normal_multiplier |-> <<115, 100>>],
      [difficulty_hard_multiplier |-> <<12, 10>>, global_easy_boost |-> <<12, 10>>],
      "theme_Cyberpunk Heist_supply_multiplier" :> <<13, 10>>,
      "theme_The Desert Caravan_supply_multiplier" :> <<8, 10>>
         @@ [difficulty_easy_multiplier |-> <<9, 10>>, global_easy_boost |-> <<12, 10>>] }

SuppliesInit ==
    /\ tuning_file \in {NoFile} \cup {[adjustments |-> d] : d \in SupplyOverrides}
    /\ saves = 0
    /\ TUNING_CONFIG = EmptyDict
    /\ TUNING_LOADED = FALSE
    /\ player = NoPlayer
    /\ call = NoCall
    /\ session = NoSession

\* Player(name, theme, difficulty) in a new process: __post_init__ loads
\* the file
PlayerCall ==
    /\ call.op = "none"
    /\ \E theme \in DOMAIN THEMES, difficulty \in Difficulties :
          /\ TUNING_CONFIG' = LoadedConfig(tuning_file, TUNING_CONFIG)
          /\ TUNING_LOADED' = TRUE
          /\ player' = NewPlayer(theme, difficulty, LoadedConfig(tuning_file, TUNING_CONFIG))
          /\ call' = Called("Player", <<theme, difficulty>>)
    /\ UNCHANGED <<tunerVars, session>>

SpecSupplies == SuppliesInit /\ [][PlayerCall]_vars

\* an override, or 1.0 for a key that is absent
Override(config, key) == DictGet(config, key, <<1, 1>>)

\* the product of the multipliers that apply, as a quotient of two ints
SupplyFactors(theme, difficulty, config) ==
    << DIFFICULTY_SETTINGS[difficulty].supply_mult,
       Override(config, "theme_" \o THEMES[theme].name \o "_supply_multiplier"),
       IF difficulty = "easy" THEN Override(config, "global_easy_boost") ELSE <<1, 1>>,
       Override(config, "difficulty_" \o difficulty \o "_multiplier") >>

ProductOf(f) == <<f[1][1] * f[2][1] * f[3][1] * f[4][1], f[1][2] * f[2][2] * f[3][2] * f[4][2]>>

\* the integer part of base * m
IntegerPart(base, m) == (base * m[1]) \div m[2]

\* C26: each starting pool equals the integer part of base *
\* supply_mult(difficulty) * theme supply override * (global easy boost if
\* the difficulty is Easy) * difficulty override, an absent override
\* counting as 1.0.
C26_StartingSuppliesProduct ==
    call.op = "Player"
       => \A k \in DOMAIN player.supplies :
             player.supplies[k]
                = IntegerPart(THEMES[player.theme].starting_supplies[k],
                              ProductOf(SupplyFactors(player.theme, player.difficulty,
                                                      TUNING_CONFIG)))

(***************************************************************************)
(* The adjustment file over the runs of the tuner.                         *)
(***************************************************************************)
\* the last run of the tuner saved its adjustments
Applied == call.op = "tuner" /\ call.arg.apply /\ Truthy(call.result.adjustments)

\* C27: an accepted tuning iteration supersedes the previous adjustment map:
\* after save_tuning_config the file's current adjustments are exactly the
\* new iteration's adjustments, and a key adjusted by an earlier iteration
\* but not by this one is no longer present.
C27_AdjustmentsSuperseded ==
    Applied => tuning_file.current_adjustments = call.result.adjustments

\* the file held an adjustment for a key the run that was saved over it did
\* not adjust
C27_Witness ==
    /\ Applied
    /\ FileExists(call.before)
    /\ \E key \in DOMAIN DictGet(ExistingConfig(call.before), "current_adjustments", EmptyDict) :
          /\ key \notin DOMAIN call.result.adjustments
          /\ key \notin DOMAIN tuning_file.current_adjustments

\* two history entries record the same iteration (previous_metrics, a dict
\* or None, follows from the entries before)
SameEntry(a, b) ==
    /\ a.iteration = b.iteration
    /\ a.sessions_analyzed = b.sessions_analyzed
    /\ a.adjustments = b.adjustments
    /\ a.metrics = b.metrics
    /\ a.insights_count = b.insights_count
    /\ a.outcome = b.outcome

\* C28: after any number of tuning iterations the stored history holds at
\* most 5 entries, and they are the most recently recorded iterations in
\* recording order: each save appends its entry and drops the oldest beyond
\* five.
C28_HistoryWindow ==
    [][ SaveStep =>
          /\ Len(HistoryOf(tuning_file')) <= 5
          /\ Len(HistoryOf(tuning_file'))
                = IF Len(HistoryOf(tuning_file)) < 5 THEN Len(HistoryOf(tuning_file)) + 1 ELSE 5
          /\ \A i \in 1..(Len(HistoryOf(tuning_file')) - 1) :
                SameEntry(HistoryOf(tuning_file')[i],
                          HistoryOf(tuning_file)[Len(HistoryOf(tuning_file))
                                                    - Len(HistoryOf(tuning_file')) + 1 + i]) ]_vars

\* seven saves in a row have left five entries, the last of them differing
\* from the first
C28_Witness ==
    /\ saves = 7
    /\ Len(HistoryOf(tuning_file)) = 5
    /\ ~SameEntry(HistoryOf(tuning_file)[1], HistoryOf(tuning_file)[5])

(***************************************************************************)
(* main.py: two sessions under one seed                                    *)
(*                                                                         *)
(* random.seed(seed) fixes the sequence of values the generator hands out. *)
(* The generator is a linear congruential one here: like Python's, its     *)
(* next value is a function of its state alone.  session.rng[s] is the     *)
(* generator state of session s, and a value u stands for the float u / 5  *)
(* that random.random() returns.  Both sessions have the same theme and    *)
(* difficulty and answer their prompts with session.choices.  A session    *)
(* has seen fewer scenarios than its theme has templates, so the first     *)
(* candidate of _event_generated_scenario is kept.                         *)
(***************************************************************************)

MaxReplayEvents == 2

MaxSeed == 15

Modulus == 64

Units == 0 .. 4

ReplayThemes == {"DESERT", "AI_GENERATED"}

Sessions == {"a", "b"}

\* what the scenario service does with a request: a fresh text, or no answer
Answers == {"scenario", "refused"}

\* int(random.random() * n)
RandomBelow(u, n) == (u * n) \div 5

\* random.choice(seq)
ChoiceAt(seq, u) == seq[RandomBelow(u, Len(seq)) + 1]

\* random.randint(lo, hi)
RandIntAt(lo, hi, u) == lo + RandomBelow(u, hi - lo + 1)

\* random.random() < tenths / 10
UnitBelow(u, tenths) == u * 2 < tenths

\* the generator state after one more value
Stepped(x) == (5 * x + 3) % Modulus

\* one value taken from the generator by the run r
Draw(r) == [r EXCEPT !.x = Stepped(@), !.u = (Stepped(r.x) * 5) \div Modulus]

\* p.damage(random.randint(lo, hi))
Hurt(r, config, lo, hi) ==
    [Draw(r) EXCEPT !.p = damage(@, config, RandIntAt(lo, hi, Draw(r).u))]

\* p.add_item(random.choice(items))
Found(r, items) == [Draw(r) EXCEPT !.p = add_item(@, ChoiceAt(items, Draw(r).u))]

\* the first element of "1. Face the danger head-on"
DangerMet(q, config) == IF UnitBelow(q.u, 4) THEN Hurt(q, config, 10, 20) ELSE Draw(q)

\* "1. Face the danger head-on"
DangerFaced(r, config) == Draw(DangerMet(Draw(r), config))

\* "1. Claim it for yourself"
Claimed(r) ==
    IF Cardinality(r.p.inventory) < 8
    THEN Found(r, <<"Healer's Salve", "Morale Charm">>)
    ELSE r

\* the inner conditional of "1. Investigate carefully and take your time"
Observed(q) ==
    IF UnitBelow(q.u, 6) /\ Cardinality(q.p.inventory) < 8
    THEN Found(q, <<"Healer's Salve", "Morale Charm", "Signal-Flare">>)
    ELSE q

\* the outer conditional
Careful(q) == IF UnitBelow(q.u, 6) THEN Observed(Draw(q)) ELSE q

\* "1. Investigate carefully and take your time"
Investigated(r) == Draw(Careful(Draw(r)))

\* the conditional of "2. Act boldly and seize the moment"
Dared(q, config) == IF UnitBelow(q.u, 5) THEN Draw(Draw(q)) ELSE Hurt(q, config, 10, 18)

\* "2. Act boldly and seize the moment"
Bold(r, config) == Dared(Draw(r), config)

\* outcome(player) of response_options[scenario_type][choice]
ScenarioOutcome(r, config, scenario_type, choice) ==
    CASE scenario_type = "danger" /\ choice = 1    -> DangerFaced(r, config)
      [] scenario_type = "danger" /\ choice = 2    -> Draw(Draw(r))
      [] scenario_type = "danger" /\ choice = 3    ->
            [r EXCEPT !.p = adjust_supply(@, "food", -2)]
      [] scenario_type = "mystery" /\ choice = 4   -> Draw(Draw(r))
      [] scenario_type = "discovery" /\ choice = 1 -> Claimed(r)
      [] scenario_type = "encounter" /\ choice = 4 -> Hurt(r, config, 8, 15)
      [] scenario_type = "general" /\ choice = 1   -> Investigated(r)
      [] scenario_type = "general" /\ choice = 2   -> Bold(r, config)
      [] OTHER                                     -> Draw(r)

\* theme = random.choice([...]) of generate_ai_scenario, for AI_GENERATED
ContextTheme(r) == IF r.p.theme = "AI_GENERATED" THEN Draw(r) ELSE r

\* generate_ai_scenario: the prompt and the temperature are drawn before
\* the request; a template is drawn when no text came back
generate_ai_scenario(r, test_mode, answer) ==
    IF test_mode
    THEN Draw(ContextTheme(r))
    ELSE IF answer = "scenario"
         THEN Draw(Draw(ContextTheme(r)))
         ELSE Draw(Draw(Draw(ContextTheme(r))))

ScenarioTypes == <<"general", "danger", "mystery", "discovery", "encounter">>

\* the run after scenario_type was drawn into q.u
ScenarioOf(q, config, test_mode, answer, choice) ==
    ScenarioOutcome(generate_ai_scenario(q, test_mode, answer), config,
                    ChoiceAt(ScenarioTypes, q.u), choice)

\* _event_generated_scenario for the run r
generated_scenario(r, config, test_mode, answer, choice) ==
    ScenarioOf(Draw(r), config, test_mode, answer, choice)

ReplayInit ==
    /\ tuning_file = NoFile
    /\ saves = 0
    /\ TUNING_CONFIG = EmptyDict
    /\ TUNING_LOADED = TRUE
    /\ call = NoCall
    /\ \E theme \in ReplayThemes, difficulty \in Difficulties :
          player = [s \in Sessions |-> NewPlayer(theme, difficulty, EmptyDict)]
    /\ \E seed \in 0 .. MaxSeed, choices \in [1 .. MaxReplayEvents -> 1 .. 4],
          test_mode \in BOOLEAN :
          session = [pc |-> "replay", seed |-> seed, choices |-> choices,
                     test_mode |-> test_mode,
                     rng |-> [s \in Sessions |-> seed],
                     events |-> [s \in Sessions |-> 0]]

RunOf(s) == [p |-> player[s], x |-> session.rng[s], u |-> 0]

\* the session after r, the run of its next event
Replayed(s, r) ==
    /\ player' = [player EXCEPT ![s] = r.p]
    /\ session' = [session EXCEPT !.rng[s] = r.x, !.events[s] = @ + 1]

\* session s meets the generated scenario and answers with its next choice
ReplayEvent ==
    \E s \in Sessions, answer \in Answers :
       /\ session.events[s] < MaxReplayEvents
       /\ Replayed(s, generated_scenario(RunOf(s), TUNING_CONFIG, session.test_mode,
                                         answer, session.choices[session.events[s] + 1]))
       /\ UNCHANGED <<tunerVars, TUNING_CONFIG, TUNING_LOADED, call>>

SpecReplay == ReplayInit /\ [][ReplayEvent]_vars

\* the player state the sessions are compared on
SameStates(p, q) ==
    /\ p.distance_travelled = q.distance_travelled
    /\ p.health = q.health
    /\ p.morale = q.morale
    /\ p.supplies = q.supplies
    /\ p.status_effects = q.status_effects
    /\ p.weather = q.weather

\* C29: two sessions with the same seed, theme and difficulty that have
\* answered the same choices are in the same player state
C29_SameSeedSameStates ==
    session.events["a"] = session.events["b"] => SameStates(player["a"], player["b"])

\* the same without a scenario service (TEST_MODE)
ReplayWithoutService ==
    (session.test_mode /\ session.events["a"] = session.events["b"])
        => SameStates(player["a"], player["b"])

(***************************************************************************)
(* The distance of one Travel                                              *)
(***************************************************************************)

\* a step of Spec in which daily_action took choice 1 and met no event: the
\* day is over, nothing was scouted, and the distance has changed
TravelStep ==
    /\ pc = "daily"
    /\ session'.day_count = session.day_count + 1
    /\ player'.days = player.days + 1
    /\ player'.scout_count = player.scout_count
    /\ player'.distance_travelled # player.distance_travelled

\* what the step added to distance_travelled
Covered == player'.distance_travelled - player.distance_travelled

\* lo .. hi of the theme's daily_distance
DailyRange(p) == THEMES[p.theme].daily_distance[1] .. THEMES[p.theme].daily_distance[2]

\* the draw with the bonus of the compass, the mantle and a scouting companion
WithBonus(p, roll) ==
    roll + (IF {"Wanderer's Compass", "Guardian's Mantle"} \cap p.inventory # {} THEN 10 ELSE 0)
         + (IF p.companion.bonus_type = "scout" THEN p.companion.bonus_value ELSE 0)

\* 15 fewer in a storm, 8 fewer in fog, 5 more under a clear sky
SkyBonus(p) ==
    CASE p.weather = "STORM" -> -15
      [] p.weather = "FOG"   -> -8
      [] p.weather = "CLEAR" -> 5
      [] OTHER               -> 0

\* a shift that slows the journey leaves at least 5
Shifted(dist, shift) == IF shift < 0 THEN Max2(5, dist + shift) ELSE dist + shift

\* 10 fewer at night without the lantern or the ember stone
NightShift(p) ==
    IF p.time_of_day = "NIGHT" /\ {"Eldritch Lantern", "Ember Stone"} \cap p.inventory = {}
    THEN -10
    ELSE 0

AdjustedDraw(p, roll) ==
    Shifted(Shifted(WithBonus(p, roll), SkyBonus(p)), NightShift(p))
       + (IF p.status_effects["INSPIRED"] > 0 THEN 8 ELSE 0)

\* C30 as stated: a Travel that meets no event adds an amount within the
\* theme's daily-distance range [lo, hi]
C30_TravelWithinRange == [][TravelStep => Covered \in DailyRange(player)]_vars

\* C30: a Travel that meets no event adds one draw from [lo, hi] with the
\* item and companion bonus added, shifted by the weather and by the night
\* (never below 5), and 8 more when inspired
C30_TravelAdjustedDraw ==
    [][TravelStep => \E roll \in DailyRange(player) : Covered = AdjustedDraw(player, roll)]_vars

\* the first day's Travel under the clear sky with the highest draw
C30_Witness ==
    /\ player # NoPlayer
    /\ session.day_count = 1
    /\ player.days = 1
    /\ player.scout_count = 0
    /\ player.distance_travelled = THEMES[player.theme].daily_distance[2] + 5

(***************************************************************************)
(* main.py: the log files of several sessions.  session.clock is the       *)
(* second datetime.now() shows, session.files the content of the files of  *)
(* logs/ by the second in their name, and session.logger[proc] the         *)
(* GameLogger of the session the process proc is playing.  A process      *)
(* starts its next session (replay) once the last one has logged           *)
(* session_end; two processes run side by side.                            *)
(***************************************************************************)

MaxClock == 1

MaxSessions == 3

MaxSessionEvents == 2

LogProcs == {"p", "q"}

NoLogger == [id |-> 0, file |-> 0, events |-> 0, closed |-> TRUE]

\* open(self.log_file, "a") and f.write: the record lands at the end of the
\* file, whatever the file holds
Appended(files, name, record) == [files EXCEPT ![name] = Append(@, record)]

\* GameLogger(): session_id from the clock's second, then session_start
GameLoggerNew(s, proc) ==
    [s EXCEPT !.started = @ + 1,
              !.logger[proc] = [id |-> s.started + 1, file |-> s.clock,
                                events |-> 0, closed |-> FALSE],
              !.files = Appended(@, s.clock,
                                 [session |-> s.started + 1, type |-> "session_start"])]

\* GAME_LOGGER.log_event(type, ...) of the process proc
LoggerEvent(s, proc, type) ==
    [s EXCEPT !.logger[proc].events = @ + 1,
              !.logger[proc].closed = (type = "session_end"),
              !.files = Appended(@, s.logger[proc].file,
                                 [session |-> s.logger[proc].id, type |-> type])]

LogFilesInit ==
    /\ tuning_file = NoFile
    /\ saves = 0
    /\ TUNING_CONFIG = EmptyDict
    /\ TUNING_LOADED = FALSE
    /\ player = NoPlayer
    /\ call = NoCall
    /\ session = [pc |-> "logs", clock |-> 0, started |-> 0,
                  logger |-> [proc \in LogProcs |-> NoLogger],
                  files |-> [name \in 0 .. MaxClock |-> <<>>]]

\* a second passes
ClockTick ==
    /\ session.clock < MaxClock
    /\ session' = [session EXCEPT !.clock = @ + 1]
    /\ UNCHANGED <<tunerVars, TUNING_CONFIG, TUNING_LOADED, player, call>>

\* _run_game_loop: init_logger(), in a new process or on "play again"
SessionStarts ==
    /\ session.started < MaxSessions
    /\ \E proc \in LogProcs :
          /\ session.logger[proc].closed
          /\ session' = GameLoggerNew(session, proc)
    /\ UNCHANGED <<tunerVars, TUNING_CONFIG, TUNING_LOADED, player, call>>

\* the session of a process logs an event, or its session_end
SessionLogs ==
    /\ \E proc \in LogProcs, type \in {"choice", "session_end"} :
          /\ ~session.logger[proc].closed
          /\ session.logger[proc].events < MaxSessionEvents
             \/ type = "session_end"
          /\ session' = LoggerEvent(session, proc, type)
    /\ UNCHANGED <<tunerVars, TUNING_CONFIG, TUNING_LOADED, player, call>>

LogFilesNext == ClockTick \/ SessionStarts \/ SessionLogs

SpecLogFiles == LogFilesInit /\ [][LogFilesNext]_vars

\* C31: every log file holds the records of one session only, also when two
\* sessions start within the same second
C31_OneSessionPerFile ==
    \A name \in 0 .. MaxClock :
       \A i, j \in 1 .. Len(session.files[name]) :
          session.files[name][i].session = session.files[name][j].session

(***************************************************************************)
(* The terminal states of a session                                        *)
(***************************************************************************)

\* the types of the records the session's log holds after the step
TypesLogged == {session'.log[i].type : i \in DOMAIN session'.log}

\* C32: once the loop has ended with the player arrived and alive (the
\* session is at the final encounter), the rest of the session does not lower
\* health, and the outcome record is a victory and not a death
C32_ArrivedIsTerminal ==
    [][(pc = "final" /\ pc' = "ended")
          => /\ player'.health >= player.health
             /\ "victory" \in TypesLogged
             /\ "death" \notin TypesLogged]_vars

\* the loop has gone round and left a player without health
DeadAfterIteration == player # NoPlayer /\ player.health <= 0 /\ pc \notin {"event", "dice"}

\* C33: once the player's health is <= 0 at the end of a loop iteration, the
\* session is over: its log holds one death record and ends with
\* session_end, no daily action is asked for or resolved, and the day
\* counter stays where it is
C33_DeadIsTerminal ==
    [][DeadAfterIteration
          => /\ pc = "ended"
             /\ LogCount("death") = 1
             /\ LogCount("victory") = 0
             /\ session.log[Len(session.log)].type = "session_end"
             /\ pc' \in {"start", "quit", "exited"}
             /\ session'.day_count = session.day_count]_vars

\* a player who died on the road, short of the destination
C33_Witness ==
    /\ pc = "ended"
    /\ player # NoPlayer
    /\ player.health <= 0
    /\ ~Arrived(player)
    /\ LogCount("death") = 1

(***************************************************************************)
(* The day a Travel, Rest or Scout resolves                                *)
(***************************************************************************)

\* a step in which the loop's iteration ends and its daily action was not a
\* menu: the action was travel, rest or scout, with or without an event
DayResolved == session'.day_count = session.day_count + 1 /\ ~UseItem /\ ~Craft

\* Dawn -> Day -> Dusk -> Night -> Dawn
TimeAfter(time) ==
    CASE time = "DAWN"  -> "DAY"
      [] time = "DAY"   -> "DUSK"
      [] time = "DUSK"  -> "NIGHT"
      [] time = "NIGHT" -> "DAWN"

\* C34: every resolved Travel, Rest or Scout advances the day counters by
\* exactly 1 and the time of day by one step of the cycle, four steps of
\* which lead back; without an event every effect has lost one day (or is
\* over, as the poison a rest has cured)
C34_DayAdvancesOnce ==
    [][DayResolved
          => /\ player'.days = player.days + 1
             /\ player'.time_of_day = TimeAfter(player.time_of_day)
             /\ TimeAfter(TimeAfter(TimeAfter(player'.time_of_day))) = player.time_of_day
             /\ pc = "daily"
                   => \A e \in StatusEffects :
                         \/ player'.status_effects[e] = Max2(0, player.status_effects[e] - 1)
                         \/ e = "POISONED" /\ player'.status_effects[e] = 0]_vars

\* the first day of a session is over: dawn has turned to day
C34_Witness ==
    /\ player # NoPlayer
    /\ session.day_count = 1
    /\ player.days = 1
    /\ player.time_of_day = "DAY"

(***************************************************************************)
(* Player.damage across the difficulties                                   *)
(***************************************************************************)

MaxHit == 12

\* players of every difficulty under every override map the tuner writes
DifficultyInit ==
    /\ IdleTuner
    /\ TUNING_CONFIG \in TunerDamageOverrides
    /\ \E difficulty \in Difficulties, shielded \in {0, 2}, companion \in {NoCompanion, Daro} :
          player = [NewPlayer("DESERT", difficulty, TUNING_CONFIG)
                       EXCEPT !.status_effects["SHIELDED"] = shielded,
                              !.companion = companion]
    /\ call = NoCall
    /\ session = NoSession

\* player.damage(amount)
HitCall ==
    /\ call.op = "none"
    /\ \E amount \in 1..MaxHit :
          /\ player' = damage(player, TUNING_CONFIG, amount)
          /\ call' = Called("damage", amount)
    /\ UNCHANGED <<tunerVars, TUNING_CONFIG, TUNING_LOADED, session>>

SpecDifficulty == DifficultyInit /\ [][HitCall]_vars

\* the health the last call of damage would have taken on the difficulty d
LostOn(d) == DamageApplied([call.before EXCEPT !.difficulty = d], TUNING_CONFIG, call.arg)

\* the health it would have taken beside the companion c
LostBeside(c) == DamageApplied([call.before EXCEPT !.companion = c], TUNING_CONFIG, call.arg)

\* C35: for every amount > 0 and the same shield and companion, with no
\* overrides or with any damage overrides the tuner writes, easy loses no
\* more health than normal and normal no more than hard, and a combat
\* companion never increases the loss
C35_DamageMonotone ==
    (call.op = "damage" /\ TUNING_CONFIG \in TunerDamageOverrides)
       => /\ DamageTaken = LostOn(call.before.difficulty)
          /\ LostOn("easy") <= LostOn("normal")
          /\ LostOn("normal") <= LostOn("hard")
          /\ LostBeside(Daro) <= LostBeside(NoCompanion)

\* a hit on hard with hard alone tuned down, still harder than on normal,
\* of which the companion takes a part
C35_Witness ==
    /\ call.op = "damage"
    /\ call.before.difficulty = "hard"
    /\ DOMAIN TUNING_CONFIG = {"difficulty_hard_damage_reduction"}
    /\ LostOn("normal") < LostOn("hard")
    /\ LostBeside(Daro) < LostBeside(NoCompanion)

(***************************************************************************)
(* Player.heal on its own: players as __post_init__ leaves them, with the  *)
(* starting health the tuner's initial_health_multiplier gives, are hurt   *)
(* and healed.                                                             *)
(***************************************************************************)

MaxHealCalls == 3

\* no override, or one of the two analyze_health_survivability writes
HealthOverrides ==
    { EmptyDict,
      [initial_health_multiplier |-> <<12, 10>>],
      [initial_health_multiplier |-> <<11, 10>>] }

\* random.randint(8, 18) of a rest, the 15 of the final encounter, and 0
HealAmounts == {0, 8, 15, 18}

HealInit ==
    /\ IdleTuner
    /\ TUNING_CONFIG \in HealthOverrides
    /\ \E difficulty \in Difficulties :
          player = NewPlayer("DESERT", difficulty, TUNING_CONFIG)
    /\ call = NoCall
    /\ session = [pc |-> "heal", calls |-> 0]

\* player.heal(amount)
HealCall ==
    /\ session.calls < MaxHealCalls
    /\ \E amount \in HealAmounts :
          /\ player' = heal(player, amount)
          /\ call' = Called("heal", amount)
    /\ session' = [session EXCEPT !.calls = @ + 1]
    /\ UNCHANGED <<tunerVars, TUNING_CONFIG, TUNING_LOADED>>

\* player.damage(amount) between the heals
HurtCall ==
    /\ session.calls < MaxHealCalls
    /\ \E amount \in {12, 50} :
          /\ player' = damage(player, TUNING_CONFIG, amount)
          /\ call' = Called("damage", amount)
    /\ session' = [session EXCEPT !.calls = @ + 1]
    /\ UNCHANGED <<tunerVars, TUNING_CONFIG, TUNING_LOADED>>

SpecHeal == HealInit /\ [][HealCall \/ HurtCall]_vars

\* C36: heal(amount) with amount >= 0 never lowers health and never leaves
\* health above 100, from every health a session can reach
C36_HealNeverLowers ==
    (call.op = "heal" /\ call.arg >= 0)
       => /\ player.health >= call.before.health
          /\ player.health <= 100

(***************************************************************************)
(* main.py: the seed from one session to the next.  session.rng is the     *)
(* state of the module's generator (the linear congruential one above),    *)
(* session.seed the seed the session under way has drawn, and              *)
(* session.replayed the seed of the session before when "same seed         *)
(* (replay)" was chosen.                                                   *)
(***************************************************************************)

MaxGames == 3

MaxDraws == 2

\* a value no seed takes
NoSeed == MaxSeed + 1

\* random.randint(0, MaxSeed) from the generator state x
SeedDrawn(x) == (Stepped(x) * (MaxSeed + 1)) \div Modulus

\* a process starts with a generator nobody has seeded
PlayAgainInit ==
    /\ tuning_file = NoFile
    /\ saves = 0
    /\ TUNING_CONFIG = EmptyDict
    /\ TUNING_LOADED = FALSE
    /\ player = NoPlayer
    /\ call = NoCall
    /\ \E x \in 0 .. Modulus - 1 :
          session = [pc |-> "start", rng |-> x, seed |-> NoSeed, replayed |-> NoSeed,
                     games |-> 0, draws |-> 0]

\* _run_game_loop up to the loop: seed = random.randint(...), the
\* introduction, then random.seed(seed)
SeedGame ==
    /\ pc = "start"
    /\ session' = [session EXCEPT !.pc = "daily",
                                  !.seed = SeedDrawn(session.rng),
                                  !.rng = SeedDrawn(session.rng),
                                  !.games = @ + 1,
                                  !.draws = 0]
    /\ UNCHANGED <<tunerVars, TUNING_CONFIG, TUNING_LOADED, player, call>>

\* the session draws from the generator
GameDraws ==
    /\ pc = "daily"
    /\ session.draws < MaxDraws
    /\ session' = [session EXCEPT !.rng = Stepped(@), !.draws = @ + 1]
    /\ UNCHANGED <<tunerVars, TUNING_CONFIG, TUNING_LOADED, player, call>>

\* the loop ends and the session asks "Want to play again?"
GameEnds ==
    /\ pc = "daily"
    /\ session' = [session EXCEPT !.pc = "ended"]
    /\ UNCHANGED <<tunerVars, TUNING_CONFIG, TUNING_LOADED, player, call>>

\* replay == "1": random.seed(seed), then _run_game_loop asks for the theme
ReplaySameSeed ==
    /\ pc = "ended"
    /\ session.games < MaxGames
    /\ session' = [session EXCEPT !.pc = "start", !.rng = session.seed,
                                  !.replayed = session.seed]
    /\ UNCHANGED <<tunerVars, TUNING_CONFIG, TUNING_LOADED, player, call>>

\* replay == "2": _run_game_loop with the generator as it stands
NewAdventure ==
    /\ pc = "ended"
    /\ session.games < MaxGames
    /\ session' = [session EXCEPT !.pc = "start", !.replayed = NoSeed]
    /\ UNCHANGED <<tunerVars, TUNING_CONFIG, TUNING_LOADED, player, call>>

PlayAgainNext == SeedGame \/ GameDraws \/ GameEnds \/ ReplaySameSeed \/ NewAdventure

SpecPlayAgain == PlayAgainInit /\ [][PlayAgainNext]_vars

\* C37: a session started through "same seed (replay)" seeds its gameplay
\* generator with the seed of the session just played
C37_ReplaySameSeed ==
    (pc = "daily" /\ session.replayed # NoSeed) => session.seed = session.replayed

(***************************************************************************)
(* The fractional debt of consume_daily.                                   *)
(***************************************************************************)
\* the effective rate of a pool as the float consume_daily adds to the debt
RateAdded(p, config, rate_key) ==
    DblMul(Setting(p.difficulty, "daily_consume"), get_tuned_value(config, rate_key, DblOne))

\* a debt that is at least 0 and less than 1
DebtInUnit(debt) == DblLeq(DblFromInt(0), debt) /\ DblLess(debt, DblOne)

\* a call on a player with no Exhausted effect and no supply companion,
\* whose pools hold the units the call takes
PlainConsume ==
    /\ call.op = "consume_daily"
    /\ ~HasEffect(call.before, "EXHAUSTED")
    /\ call.before.companion.bonus_type # "supply"
    /\ player.supplies.food > 0
    /\ player.supplies.water > 0

\* the units the call took from a pool, plus the debt it left, are the debt
\* it found plus the rate
DebtConserved(pool, old_debt, new_debt, rate_key) ==
    DblAdd(DblFromInt(call.before.supplies[pool] - player.supplies[pool]), new_debt)
        = DblAdd(old_debt, RateAdded(call.before, TUNING_CONFIG, rate_key))

C39_SessionWithinMaxDays ==
    player # NoPlayer =>
       /\ session.day_count <= session.max_days
       /\ pc = "ended" => player.days <= session.max_days
       /\ pc = "daily" => is_alive(player) /\ ~Arrived(player)

\* the same of the sessions that are given at least one day
C39_WithinMaxDaysFromOne ==
    session.max_days >= 1 => C39_SessionWithinMaxDays

(***************************************************************************)
(* game_tuner.py: main under --apply when the analyses adjust nothing.     *)
(***************************************************************************)
\* a run with --apply whose analysis left an empty adjustment map
AppliedNothing ==
    /\ call.op = "tuner"
    /\ call.arg.apply
    /\ call.result.adjustments = EmptyDict

\* the file was written by save_tuning_config: it holds a history
WrittenByTuner(file) ==
    FileExists(file) /\ Parseable(file) /\ DictGet(file, "tuning_history", <<>>) # <<>>

\* the file is the one the run found
FileKept == AppliedNothing => tuning_file = call.before

\* C40: a tuning run with --apply whose analysis yields an empty adjustment
\* map does not rewrite the adjustment file: its adjustments, its history
\* and its iteration counter are those the previous iteration left, and the
\* adjustments of that iteration are the overrides the game loads.
C40_EmptyAnalysisKeepsFile ==
    AppliedNothing
       => /\ tuning_file = call.before
          /\ WrittenByTuner(call.before)
                => LoadedConfig(tuning_file, EmptyDict) = call.before.current_adjustments

====
